---------------------------- MODULE Spec2Model ----------------------------
(***************************************************************************)
(* A model of trimmer-io/go-csv: the type descriptor cache (typeinfo.go),  *)
(* the Decoder (unmarshal.go) and the Encoder (unnamed/part_000).          *)
(*                                                                         *)
(* Text is modelled as a sequence of one-character strings, so that        *)
(* splitting, joining, trimming, quoting and number formatting are         *)
(* computed character by character as the Go code computes them.           *)
(***************************************************************************)
EXTENDS Integers, Sequences, FiniteSets, TLC

(***************************************************************************)
(* Bounds of the model.                                                    *)
(***************************************************************************)
MaxLineLen == 4      \* longest line drawn character by character (SpecLine)
MaxRecords == 2      \* longest slice handed to Marshal and Encode
MaxLines == 3        \* most lines of a decoded input, and the number of
                     \* written lines from which the Encoder is left alone
MaxHeader == 4        \* Decode is called while the header has fewer names
MaxRoutines == 2     \* the goroutines that call getTypeInfo side by side

(***************************************************************************)
(* unmarshal.go:49-53                                                      *)
(***************************************************************************)
Separator == ","
Comment == "#"
Wrapper == "\""

(***************************************************************************)
(* Package strings, on sequences of characters.                            *)
(***************************************************************************)
RECURSIVE IndexFrom(_, _, _)
\* the least index i >= from with s[i] = c, or 0
IndexFrom(s, c, from) ==
    IF from > Len(s) THEN 0
    ELSE IF s[from] = c THEN from
    ELSE IndexFrom(s, c, from + 1)

RECURSIVE Split(_, _)
\* strings.Split(s, sep) for a one-character sep
Split(s, sep) ==
    LET i == IndexFrom(s, sep, 1)
    IN  IF i = 0 THEN <<s>>
        ELSE <<SubSeq(s, 1, i - 1)>> \o Split(SubSeq(s, i + 1, Len(s)), sep)

RECURSIVE Join(_, _)
\* strings.Join(parts, sep)
Join(parts, sep) ==
    IF Len(parts) = 0 THEN <<>>
    ELSE IF Len(parts) = 1 THEN parts[1]
    ELSE parts[1] \o <<sep>> \o Join(Tail(parts), sep)

HasPrefix(s, c) == Len(s) >= 1 /\ s[1] = c
HasSuffix(s, c) == Len(s) >= 1 /\ s[Len(s)] = c

IsSpace(c) == c \in {" ", "\t", "\n", "\r", "\f"}

RECURSIVE TrimLeft(_)
TrimLeft(s) == IF Len(s) > 0 /\ IsSpace(s[1]) THEN TrimLeft(Tail(s)) ELSE s

RECURSIVE TrimRight(_)
TrimRight(s) ==
    IF Len(s) > 0 /\ IsSpace(s[Len(s)]) THEN TrimRight(SubSeq(s, 1, Len(s) - 1))
    ELSE s

\* strings.TrimSpace
TrimSpace(s) == TrimRight(TrimLeft(s))

RECURSIVE ReplaceQuotes(_)
\* strings.Replace(s, "\"\"", "\"", -1): left to right, non-overlapping
ReplaceQuotes(s) ==
    IF Len(s) < 2 THEN s
    ELSE IF s[1] = Wrapper /\ s[2] = Wrapper
         THEN <<Wrapper>> \o ReplaceQuotes(SubSeq(s, 3, Len(s)))
         ELSE <<s[1]>> \o ReplaceQuotes(Tail(s))

(***************************************************************************)
(* Package strconv.  Integers are written in decimal; a float64 is held as *)
(* a whole number of hundredths (2345 is 23.45), the values of the         *)
(* repository's tests, and tokens carry at most two fractional digits.     *)
(***************************************************************************)
Digits == <<"0", "1", "2", "3", "4", "5", "6", "7", "8", "9">>
IsDigit(c) == \E k \in 1..10 : Digits[k] = c
DigitVal(c) == (CHOOSE k \in 1..10 : Digits[k] = c) - 1

RECURSIVE FormatNat(_)
FormatNat(n) ==
    IF n < 10 THEN <<Digits[n + 1]>>
    ELSE FormatNat(n \div 10) \o <<Digits[(n % 10) + 1]>>

\* strconv.FormatInt(n, 10)
FormatInt(n) == IF n < 0 THEN <<"-">> \o FormatNat(0 - n) ELSE FormatNat(n)

AllDigits(s) == \A k \in 1..Len(s) : IsDigit(s[k])

RECURSIVE NatVal(_)
NatVal(s) == IF Len(s) = 0 THEN 0
             ELSE 10 * NatVal(SubSeq(s, 1, Len(s) - 1)) + DigitVal(s[Len(s)])

HasSign(s) == Len(s) > 0 /\ s[1] \in {"+", "-"}
Unsigned(s) == IF HasSign(s) THEN Tail(s) ELSE s
SignOf(s) == IF Len(s) > 0 /\ s[1] = "-" THEN 0 - 1 ELSE 1

\* strconv.ParseInt(s, 10, 64): [ok, val]
ParseInt(s) ==
    LET u == Unsigned(s)
    IN  IF Len(u) > 0 /\ AllDigits(u)
        THEN [ok |-> TRUE, val |-> SignOf(s) * NatVal(u)]
        ELSE [ok |-> FALSE, val |-> 0]

\* strconv.FormatBool
FormatBool(b) == IF b THEN <<"t", "r", "u", "e">> ELSE <<"f", "a", "l", "s", "e">>

TrueForms == {<<"1">>, <<"t">>, <<"T">>, <<"T", "R", "U", "E">>,
              <<"t", "r", "u", "e">>, <<"T", "r", "u", "e">>}
FalseForms == {<<"0">>, <<"f">>, <<"F">>, <<"F", "A", "L", "S", "E">>,
               <<"f", "a", "l", "s", "e">>, <<"F", "a", "l", "s", "e">>}

\* strconv.ParseBool: [ok, val]
ParseBool(s) ==
    IF s \in TrueForms THEN [ok |-> TRUE, val |-> TRUE]
    ELSE IF s \in FalseForms THEN [ok |-> TRUE, val |-> FALSE]
    ELSE [ok |-> FALSE, val |-> FALSE]

RECURSIVE DropZeros(_)
DropZeros(s) ==
    IF Len(s) > 0 /\ s[Len(s)] = "0" THEN DropZeros(SubSeq(s, 1, Len(s) - 1))
    ELSE s

\* strconv.FormatFloat(h / 100, 'g', -1, 64): the shortest decimal that
\* reads back as the same value (below 10^6 'g' writes no exponent)
FormatFloat(h) ==
    LET a == IF h < 0 THEN 0 - h ELSE h
        frac == DropZeros(<<Digits[((a % 100) \div 10) + 1], Digits[(a % 10) + 1]>>)
    IN  (IF h < 0 THEN <<"-">> ELSE <<>>) \o FormatNat(a \div 100)
        \o (IF Len(frac) = 0 THEN <<>> ELSE <<".">> \o frac)

\* strconv.ParseFloat(s, 64) on decimal tokens without exponent: [ok, val]
ParseFloat(s) ==
    LET u == Unsigned(s)
        p == IndexFrom(u, ".", 1)
        ip == IF p = 0 THEN u ELSE SubSeq(u, 1, p - 1)
        fp == IF p = 0 THEN <<>> ELSE SubSeq(u, p + 1, Len(u))
        f2 == SubSeq(fp \o <<"0", "0">>, 1, 2)
    IN  IF AllDigits(ip) /\ AllDigits(fp) /\ Len(ip) + Len(fp) > 0
        THEN [ok |-> TRUE, val |-> SignOf(s) * (100 * NatVal(ip) + NatVal(f2))]
        ELSE [ok |-> FALSE, val |-> 0]


(***************************************************************************)
(* Go types.  A type is named by a string; GoTypes gives what package      *)
(* reflect reports of it: its Kind, its Elem (pointer, map, slice) and a   *)
(* struct's fields (reflect.StructField: Name, PkgPath, which is not empty *)
(* for an unexported field, Anonymous, the value of the csv tag, Type).    *)
(***************************************************************************)
SF(name, pkg, anon, tag, typ) ==
    [Name |-> name, PkgPath |-> pkg, Anonymous |-> anon, Tag |-> tag, Type |-> typ]

Pkg == <<"c", "s", "v">>

\* unmarshal.go:588-593 (type A) and :595-601 (type B); the other struct
\* types are record types a caller may declare
GoTypes ==
    [ string |-> [Kind |-> "String"],
      bool |-> [Kind |-> "Bool"],
      int64 |-> [Kind |-> "Int"],
      float64 |-> [Kind |-> "Float"],
      myint |-> [Kind |-> "Int"],
      chan |-> [Kind |-> "Chan"],
      mapSS |-> [Kind |-> "Map", Key |-> "string", Elem |-> "string"],
      \* unmarshal.go:619-628: type Special string
      Special |-> [Kind |-> "String"],
      mapSI |-> [Kind |-> "Map", Key |-> "string", Elem |-> "int64"],
      mapSSpecial |-> [Kind |-> "Map", Key |-> "string", Elem |-> "Special"],
      A |-> [Kind |-> "Struct", Fields |-> <<
                SF(<<"S", "t", "r">>, <<>>, FALSE, <<"s">>, "string"),
                SF(<<"B", "o", "o", "l">>, <<>>, FALSE, <<"b">>, "bool"),
                SF(<<"I", "n", "t">>, <<>>, FALSE, <<"i">>, "int64"),
                SF(<<"F", "l", "o", "a", "t">>, <<>>, FALSE, <<"f">>, "float64") >>],
      B |-> [Kind |-> "Struct", Fields |-> <<
                SF(<<"S", "t", "r">>, <<>>, FALSE, <<"s">>, "string"),
                SF(<<"B", "o", "o", "l">>, <<>>, FALSE, <<"b">>, "bool"),
                SF(<<"I", "n", "t">>, <<>>, FALSE, <<"i">>, "int64"),
                SF(<<"F", "l", "o", "a", "t">>, <<>>, FALSE, <<"f">>, "float64"),
                SF(<<"A", "n", "y">>, <<>>, FALSE, <<",", "a", "n", "y">>, "mapSS") >>],
      \* one string column
      S |-> [Kind |-> "Struct", Fields |-> <<
                SF(<<"S", "t", "r">>, <<>>, FALSE, <<"s">>, "string") >>],
      \* a string and an integer column
      P |-> [Kind |-> "Struct", Fields |-> <<
                SF(<<"S", "t", "r">>, <<>>, FALSE, <<"s">>, "string"),
                SF(<<"I", "n", "t">>, <<>>, FALSE, <<"i">>, "int64") >>],
      \* a tagged and an untagged field
      Inner |-> [Kind |-> "Struct", Fields |-> <<
                SF(<<"X">>, <<>>, FALSE, <<"x">>, "string"),
                SF(<<"Y">>, <<>>, FALSE, <<>>, "int64") >>],
      PtrInner |-> [Kind |-> "Ptr", Elem |-> "Inner"],
      \* an unexported struct type with an exported field
      inner |-> [Kind |-> "Struct", Fields |-> <<
                SF(<<"Z">>, <<>>, FALSE, <<"z">>, "bool") >>],
      \* struct { String string `csv:"s"`; Inner; Int int64 `csv:"i"` }
      E |-> [Kind |-> "Struct", Fields |-> <<
                SF(<<"S", "t", "r">>, <<>>, FALSE, <<"s">>, "string"),
                SF(<<"I", "n", "n", "e", "r">>, <<>>, TRUE, <<>>, "Inner"),
                SF(<<"I", "n", "t">>, <<>>, FALSE, <<"i">>, "int64") >>],
      \* struct { *Inner; Bool bool `csv:"b"`; inner }
      EP |-> [Kind |-> "Struct", Fields |-> <<
                SF(<<"I", "n", "n", "e", "r">>, <<>>, TRUE, <<>>, "PtrInner"),
                SF(<<"B", "o", "o", "l">>, <<>>, FALSE, <<"b">>, "bool"),
                SF(<<"i", "n", "n", "e", "r">>, Pkg, TRUE, <<>>, "inner") >>],
      \* struct { Hidden int64 `csv:"-"`; priv string; String string `csv:"s"`;
      \*          E `csv:"-"`; Float float64 }
      H |-> [Kind |-> "Struct", Fields |-> <<
                SF(<<"H", "i", "d">>, <<>>, FALSE, <<"-">>, "int64"),
                SF(<<"p", "r", "i", "v">>, Pkg, FALSE, <<"p">>, "string"),
                SF(<<"S", "t", "r">>, <<>>, FALSE, <<"s">>, "string"),
                SF(<<"E">>, <<>>, TRUE, <<"-">>, "E"),
                SF(<<"F", "l", "o", "a", "t">>, <<>>, FALSE, <<>>, "float64") >>],
      \* type myint int64; struct { String string `csv:"s"`; myint; Inner }
      U |-> [Kind |-> "Struct", Fields |-> <<
                SF(<<"S", "t", "r">>, <<>>, FALSE, <<"s">>, "string"),
                SF(<<"m", "y", "i", "n", "t">>, Pkg, TRUE, <<>>, "myint"),
                SF(<<"I", "n", "n", "e", "r">>, <<>>, TRUE, <<>>, "Inner") >>],
      strings |-> [Kind |-> "Slice", Elem |-> "string"],
      \* a record type with the method UnmarshalCSV (unmarshal.go:74-76) on
      \* its pointer: struct { Calls int64; Header, Values []string }
      M |-> [Kind |-> "Struct", Fields |-> <<
                SF(<<"C", "a", "l", "l", "s">>, <<>>, FALSE, <<>>, "int64"),
                SF(<<"H", "e", "a", "d", "e", "r">>, <<>>, FALSE, <<>>, "strings"),
                SF(<<"V", "a", "l", "u", "e", "s">>, <<>>, FALSE, <<>>, "strings") >>],
      \* struct { Hidden int64 `csv:"-"` }: a record type without a column
      N |-> [Kind |-> "Struct", Fields |-> <<
                SF(<<"H", "i", "d">>, <<>>, FALSE, <<"-">>, "int64") >>],
      \* struct { Inner; X bool `csv:"x"` }: two fields named x
      Dup |-> [Kind |-> "Struct", Fields |-> <<
                SF(<<"I", "n", "n", "e", "r">>, <<>>, TRUE, <<>>, "Inner"),
                SF(<<"X">>, <<>>, FALSE, <<"x">>, "bool") >>],
      \* type Loud string, with func (x Loud) MarshalText() ([]byte, error),
      \* and type Quiet string, with func (x *Quiet) MarshalText()
      Loud |-> [Kind |-> "String"],
      Quiet |-> [Kind |-> "String"],
      \* struct { L Loud `csv:"l"`; Q Quiet `csv:"q"` }
      T2 |-> [Kind |-> "Struct", Fields |-> <<
                SF(<<"L">>, <<>>, FALSE, <<"l">>, "Loud"),
                SF(<<"Q">>, <<>>, FALSE, <<"q">>, "Quiet") >>],
      PtrString |-> [Kind |-> "Ptr", Elem |-> "string"],
      PtrInt |-> [Kind |-> "Ptr", Elem |-> "int64"],
      ints |-> [Kind |-> "Slice", Elem |-> "int64"],
      ptrStrings |-> [Kind |-> "Slice", Elem |-> "PtrString"],
      \* struct { Str *string `csv:"s"`; Int *int64 `csv:"i"` }
      PP |-> [Kind |-> "Struct", Fields |-> <<
                SF(<<"S", "t", "r">>, <<>>, FALSE, <<"s">>, "PtrString"),
                SF(<<"I", "n", "t">>, <<>>, FALSE, <<"i">>, "PtrInt") >>],
      slicePP |-> [Kind |-> "Slice", Elem |-> "PP"],
      sliceA |-> [Kind |-> "Slice", Elem |-> "A"],
      sliceB |-> [Kind |-> "Slice", Elem |-> "B"],
      sliceS |-> [Kind |-> "Slice", Elem |-> "S"],
      sliceP |-> [Kind |-> "Slice", Elem |-> "P"] ]

\* the types T for which *T has the method UnmarshalText (unmarshal.go:621)
PtrTextUnmarshalers == {"Special"}
\* the types T for which *T has the method UnmarshalCSV (unmarshal.go:74-76)
Unmarshalers == {"M"}
\* the types that have the method String (unmarshal.go:626)
Stringers == {"Special"}
\* the types T that have the method MarshalText, and those for which only
\* *T has it (encoding.TextMarshaler, part_000:275 and :286)
TextMarshalers == {"Loud"}
PtrTextMarshalers == {"Quiet"}

Kind(t) == GoTypes[t].Kind
Elem(t) == GoTypes[t].Elem
Fields(t) == GoTypes[t].Fields
NumField(t) == Len(Fields(t))

(***************************************************************************)
(* typeinfo.go                                                             *)
(***************************************************************************)
\* typeinfo.go:49-53: fieldFlags, held as the set of the bits that are set
fElement == "fElement"
fAny == "fAny"

\* typeinfo.go:33-37
FieldInfo(idx, name, flags) == [idx |-> idx, name |-> name, flags |-> flags]

RECURSIVE anyFlags(_, _)
\* typeinfo.go:133-138: the flags named after the first comma of the tag
anyFlags(tokens, k) ==
    IF k > Len(tokens) THEN {}
    ELSE (IF tokens[k] = <<"a", "n", "y">> THEN {fAny} ELSE {})
         \cup anyFlags(tokens, k + 1)

\* typeinfo.go:123-156: f is the StructField, i its index (from 0)
structFieldInfo(f, i) ==
    LET tokens == Split(f.Tag, ",")
        tag == IF Len(tokens) = 1 THEN f.Tag ELSE tokens[1]
        flags == IF Len(tokens) = 1 THEN {fElement}
                 ELSE anyFlags(tokens, 2) \cup {fElement}
    IN  FieldInfo(<<i>>, IF tag # <<>> THEN tag ELSE f.Name, flags)

\* an addFieldInfo that looks for no conflict
addFieldInfo_noConflicts(fields, newf) ==
    [err |-> "", fields |-> Append(fields, newf)]

\* typeinfo.go:158-179: [err, fields]
addFieldInfo(fields, newf) ==
    IF \E k \in 1..Len(fields) : fields[k].name = newf.name
    THEN [err |-> "conflicts with field", fields |-> fields]
    ELSE [err |-> "", fields |-> Append(fields, newf)]

RECURSIVE addInner(_, _, _, _)
\* typeinfo.go:96-101: splice the embedded struct's fields, from the k-th on
addInner(fields, inner, i, k) ==
    IF k > Len(inner) THEN [err |-> "", fields |-> fields]
    ELSE LET added(r) ==
                 IF r.err # "" THEN r ELSE addInner(r.fields, inner, i, k + 1)
         IN  added(addFieldInfo(fields, [inner[k] EXCEPT !.idx = <<i>> \o @]))

\* typeinfo.go:81: a field the descriptor leaves out
skipField(f) == (f.PkgPath # <<>> /\ ~f.Anonymous) \/ f.Tag = <<"-">>

\* typeinfo.go:86-91: the struct type an anonymous field embeds, or ""
embedded(f) ==
    LET t == IF Kind(f.Type) = "Ptr" THEN Elem(f.Type) ELSE f.Type
    IN  IF f.Anonymous /\ Kind(t) = "Struct" THEN t ELSE ""

RECURSIVE getTypeInfo(_, _)
RECURSIVE typeFields(_, _, _, _)

\* typeinfo.go:78-115: the loop over typ's fields, from index i (from 0) on;
\* [err, fields, cache]
typeFields(cache, typ, i, fields) ==
    IF i >= NumField(typ) THEN [err |-> "", fields |-> fields, cache |-> cache]
    ELSE LET f == Fields(typ)[i + 1]
             added(r, c) ==
                 IF r.err # "" THEN [err |-> r.err, fields |-> fields, cache |-> c]
                 ELSE typeFields(c, typ, i + 1, r.fields)
             splice(in) ==
                 IF in.err # ""
                 THEN [err |-> in.err, fields |-> fields, cache |-> in.cache]
                 ELSE added(addInner(fields, in.tinfo.fields, i, 1), in.cache)
             inner(t) ==
                 IF t # "" THEN splice(getTypeInfo(cache, t))
                 ELSE added(addFieldInfo(fields, structFieldInfo(f, i)), cache)
         IN  IF skipField(f) THEN typeFields(cache, typ, i + 1, fields)
             ELSE inner(embedded(f))

\* typeinfo.go:67-120: the descriptor of typ, looked up in the cache
\* (tinfoMap) or built and published there; [err, tinfo, cache]
getTypeInfo(cache, typ) ==
    LET publish(r) ==
            IF r.err # ""
            THEN [err |-> r.err, tinfo |-> [fields |-> <<>>], cache |-> r.cache]
            ELSE [err |-> "", tinfo |-> [fields |-> r.fields],
                  cache |-> (typ :> [fields |-> r.fields]) @@ r.cache]
    IN  IF typ \in DOMAIN cache
        THEN [err |-> "", tinfo |-> cache[typ], cache |-> cache]
        ELSE IF Kind(typ) # "Struct"
        THEN [err |-> "is not a struct", tinfo |-> [fields |-> <<>>], cache |-> cache]
        ELSE publish(typeFields(cache, typ, 0, <<>>))

\* typeinfo.go:224-230
indirectType(typ) == IF Kind(typ) = "Ptr" THEN Elem(typ) ELSE typ

(***************************************************************************)
(* Go values.  A string is a sequence of characters, a bool a BOOLEAN, an  *)
(* integer an integer, a float64 a number of hundredths, a map             *)
(* [nil, m] with m a function on names, a pointer [nil, elem], a struct    *)
(* the tuple of its fields' values and a slice the sequence of its         *)
(* elements.  A value handed to the package is [T, V]: its type and what   *)
(* it holds.                                                               *)
(***************************************************************************)
RECURSIVE Zero(_)
\* the zero value of type t (reflect.New(t).Elem())
Zero(t) ==
    CASE Kind(t) = "String" -> <<>>
      [] Kind(t) = "Bool" -> FALSE
      [] Kind(t) = "Int" -> 0
      [] Kind(t) = "Float" -> 0
      [] Kind(t) = "Map" -> [nil |-> TRUE, m |-> <<>>]
      [] Kind(t) = "Ptr" -> [nil |-> TRUE, elem |-> Zero(Elem(t))]
      [] Kind(t) = "Slice" -> <<>>
      [] Kind(t) = "Struct" -> [k \in 1..NumField(t) |-> Zero(Fields(t)[k].Type)]
      [] OTHER -> <<>>

GoValue(t, x) == [T |-> t, V |-> x]

\* is this level of finfo.value's walk a pointer to a struct (typeinfo.go:186-193)
throughPtr(ct, k) == k > 1 /\ Kind(ct) = "Ptr" /\ Kind(Elem(ct)) = "Struct"

RECURSIVE valueAt(_, _, _, _)
\* typeinfo.go:184-199: the field finfo.idx names in cur (of type ct), read
\* through the pointers the walk allocates
valueAt(ct, cur, idx, k) ==
    LET st == IF throughPtr(ct, k) THEN Elem(ct) ELSE ct
        sv == IF throughPtr(ct, k) THEN (IF cur.nil THEN Zero(st) ELSE cur.elem)
              ELSE cur
        x == idx[k] + 1
    IN  IF k = Len(idx) THEN sv[x]
        ELSE valueAt(Fields(st)[x].Type, sv[x], idx, k + 1)

RECURSIVE typeAt(_, _, _)
\* the type of the field finfo.idx names
typeAt(ct, idx, k) ==
    LET st == IF throughPtr(ct, k) THEN Elem(ct) ELSE ct
        ft == Fields(st)[idx[k] + 1].Type
    IN  IF k = Len(idx) THEN ft ELSE typeAt(ft, idx, k + 1)

RECURSIVE withValueAt(_, _, _, _, _)
\* cur with the field finfo.idx names set to new, the nil pointers on the
\* way allocated (typeinfo.go:189-191)
withValueAt(ct, cur, idx, k, new) ==
    LET st == IF throughPtr(ct, k) THEN Elem(ct) ELSE ct
        sv == IF throughPtr(ct, k) THEN (IF cur.nil THEN Zero(st) ELSE cur.elem)
              ELSE cur
        x == idx[k] + 1
        in == IF k = Len(idx) THEN new
              ELSE withValueAt(Fields(st)[x].Type, sv[x], idx, k + 1, new)
        sv2 == [sv EXCEPT ![x] = in]
    IN  IF throughPtr(ct, k) THEN [nil |-> FALSE, elem |-> sv2] ELSE sv2

(***************************************************************************)
(* Errors.  kind is "nil" for no error, "DecodeError" (unmarshal.go:55-60: *)
(* lineNo, fieldNo, hint, reason), "error" for a fmt.Errorf and "panic"    *)
(* for a run-time panic of the call.                                       *)
(***************************************************************************)
\* a DecodeError whose field position is one too high
DecodeError_shifted(lineNo, fieldNo, hint, reason) ==
    [kind |-> "DecodeError", lineNo |-> lineNo, fieldNo |-> fieldNo + 1,
     hint |-> hint, reason |-> reason]

NoError == [kind |-> "nil", lineNo |-> 0, fieldNo |-> 0, hint |-> <<>>, reason |-> ""]
DecodeError(lineNo, fieldNo, hint, reason) ==
    [kind |-> "DecodeError", lineNo |-> lineNo, fieldNo |-> fieldNo,
     hint |-> hint, reason |-> reason]
Errorf(msg) == [kind |-> "error", lineNo |-> 0, fieldNo |-> 0, hint |-> <<>>, reason |-> msg]
Panic(msg) == [kind |-> "panic", lineNo |-> 0, fieldNo |-> 0, hint |-> <<>>, reason |-> msg]

(***************************************************************************)
(* unmarshal.go: the Decoder                                               *)
(***************************************************************************)
dropCR(s) == IF HasSuffix(s, "\r") THEN SubSeq(s, 1, Len(s) - 1) ELSE s

RECURSIVE ScanLines(_)
\* bufio.ScanLines over the whole input: the lines d.s.Scan() returns one by
\* one, each without its line end and without a carriage return before it
ScanLines(data) ==
    LET i == IndexFrom(data, "\n", 1)
    IN  IF Len(data) = 0 THEN <<>>
        ELSE IF i = 0 THEN <<dropCR(data)>>
        ELSE <<dropCR(SubSeq(data, 1, i - 1))>>
             \o ScanLines(SubSeq(data, i + 1, Len(data)))

\* unmarshal.go:103-114; s holds the lines the scanner has not returned yet
\* and serr what its Err() reports once Scan() has returned false: "" after a
\* reader that ends with io.EOF
NewDecoder(data) ==
    [s |-> ScanLines(data), serr |-> "", sep |-> Separator, comment |-> Comment,
     readHeader |-> TRUE, trim |-> TRUE, skipUnknown |-> TRUE,
     lineNo |-> 0, headerKeys |-> <<>>]

\* the ways the scanner stops after the lines it returns: at the end of the
\* input, at an error of the underlying reader, or at a line longer than its
\* buffer (bufio.ErrTooLong)
ScanStops == {"", "reader failed", "bufio.Scanner: token too long"}

\* unmarshal.go:214-217 and :281-285: the error after the scanner stopped
scanErr(d) == IF d.serr # "" THEN Errorf("csv: read failed") ELSE NoError

\* a decoder that passes over blank lines only
skipLine_blankOnly(d, line) == Len(line) = 0

\* unmarshal.go:255-262 and :206-211: a line the decoder passes over
skipLine(d, line) == Len(line) = 0 \/ HasPrefix(line, d.comment)

RECURSIVE ReadLine_commentsToo(_)
\* a ReadLine that passes over empty lines only
ReadLine_commentsToo(d) ==
    IF Len(d.s) = 0 THEN [d |-> d, line |-> <<>>, err |-> scanErr(d)]
    ELSE IF Len(Head(d.s)) = 0
    THEN ReadLine_commentsToo([d EXCEPT !.s = Tail(d.s), !.lineNo = @ + 1])
    ELSE [d |-> [d EXCEPT !.s = Tail(d.s), !.lineNo = @ + 1], line |-> Head(d.s),
          err |-> NoError]

RECURSIVE ReadLine(_)
\* unmarshal.go:202-218: [d, line, err]
ReadLine(d) ==
    IF Len(d.s) = 0 THEN [d |-> d, line |-> <<>>, err |-> scanErr(d)]
    ELSE LET line == Head(d.s)
             d1 == [d EXCEPT !.s = Tail(d.s), !.lineNo = @ + 1]
         IN  IF skipLine(d, line) THEN ReadLine(d1)
             ELSE [d |-> d1, line |-> line, err |-> NoError]

\* unmarshal.go:290-301: [d, err]
DecodeHeader(d, line) ==
    LET keys == Split(line, d.sep)
        trimmed == [k \in 1..Len(keys) |-> TrimSpace(keys[k])]
    IN  IF Len(keys) = 0
        THEN [d |-> [d EXCEPT !.headerKeys = keys], err |-> Errorf("csv: empty header")]
        ELSE [d |-> [d EXCEPT !.headerKeys = IF d.trim THEN trimmed ELSE keys],
              err |-> NoError]

RECURSIVE combine(_, _, _, _, _)
\* unmarshal.go:318-353: the quote-merge pass over the split tokens, from
\* the k-th on; combined and merged are the loop's variables
combine(tokens, k, combined, merged, sep) ==
    IF k > Len(tokens) THEN combined
    ELSE LET v == tokens[k]
         IN  IF Len(v) = 1 /\ HasPrefix(v, Wrapper)
             THEN IF merged = <<>>
                  THEN combine(tokens, k + 1, combined, merged \o <<sep>>, sep)
                  ELSE combine(tokens, k + 1,
                               Append(combined, merged \o <<sep>>), <<>>, sep)
             ELSE IF Len(v) >= 2 /\ HasPrefix(v, Wrapper) /\ HasSuffix(v, Wrapper)
             THEN combine(tokens, k + 1,
                          Append(combined, SubSeq(v, 2, Len(v))), <<>>, sep)
             ELSE IF HasPrefix(v, Wrapper)
             THEN combine(tokens, k + 1, combined, Tail(v), sep)
             ELSE IF HasSuffix(v, Wrapper)
             THEN combine(tokens, k + 1,
                          Append(combined,
                                 Join(<<merged, SubSeq(v, 1, Len(v) - 1)>>, sep)),
                          <<>>, sep)
             ELSE IF merged # <<>>
             THEN combine(tokens, k + 1, combined, Join(<<merged, v>>, sep), sep)
             ELSE combine(tokens, k + 1, Append(combined, v), <<>>, sep)

\* unmarshal.go:315-353: the tokens of a line
tokenize(line, sep) == combine(Split(line, sep), 1, <<>>, <<>>, sep)

RECURSIVE lastAny(_, _)
\* unmarshal.go:437-441: the index of the last descriptor among the first n
\* that carries fAny, or 0
lastAny(fields, n) ==
    IF n = 0 THEN 0
    ELSE IF fAny \in fields[n].flags THEN n
    ELSE lastAny(fields, n - 1)

RECURSIVE firstNamed(_, _, _)
\* unmarshal.go:443-449: the index of the first descriptor from k on whose
\* name is name, or 0
firstNamed(fields, name, k) ==
    IF k > Len(fields) THEN 0
    ELSE IF fields[k].name = name THEN k
    ELSE firstNamed(fields, name, k + 1)

\* a lookup that binds a name no descriptor carries to the first descriptor
fieldIndex_bindsUnknown(fields, name) ==
    LET pick(hit) == IF hit # 0 THEN hit ELSE IF Len(fields) > 0 THEN 1 ELSE 0
    IN  pick(firstNamed(fields, name, 1))

\* unmarshal.go:443-456: the index of the descriptor bound to name: the
\* first of that name or, when there is none, the last that carries fAny; 0
\* when nothing is found
fieldIndex(fields, name) ==
    LET pick(hit) == IF hit # 0 THEN hit ELSE lastAny(fields, Len(fields))
    IN  pick(firstNamed(fields, name, 1))

RECURSIVE walkSetsNil(_, _, _, _)
\* typeinfo.go:188-190: does finfo.value come to a nil pointer, which it sets
walkSetsNil(ct, cur, idx, k) ==
    LET st == IF throughPtr(ct, k) THEN Elem(ct) ELSE ct
        sv == IF throughPtr(ct, k) THEN (IF cur.nil THEN Zero(st) ELSE cur.elem)
              ELSE cur
        x == idx[k] + 1
    IN  \/ throughPtr(ct, k) /\ cur.nil
        \/ k < Len(idx) /\ walkSetsNil(Fields(st)[x].Type, sv[x], idx, k + 1)

\* unmarshal.go:457-459: nothing is bound to the name; panic tells that
\* finfo.value set a nil pointer of a value that is not addressable
noField(val, c, p) ==
    [ok |-> FALSE, panic |-> p, finfo |-> FieldInfo(<<>>, <<>>, {}),
     ft |-> "", f |-> <<>>, val |-> val, cache |-> c]

\* unmarshal.go:461-465: a nil pointer field that can be set is allocated
allocField(ft, f0, canSet) ==
    IF Kind(ft) = "Ptr" /\ f0.nil /\ canSet
    THEN [nil |-> FALSE, elem |-> Zero(Elem(ft))] ELSE f0

\* unmarshal.go:461-467: the bound field f (of type ft) and val holding it
boundField(val, finfo, ft, f, c) ==
    [ok |-> TRUE, panic |-> FALSE, finfo |-> finfo, ft |-> ft, f |-> f,
     val |-> [val EXCEPT !.V = withValueAt(val.T, val.V, finfo.idx, 1, f)],
     cache |-> c]

\* unmarshal.go:461: finfo.value(val) for the descriptor that was chosen
fieldValue(val, canSet, finfo, ft, c) ==
    IF ~canSet /\ walkSetsNil(val.T, val.V, finfo.idx, 1) THEN noField(val, c, TRUE)
    ELSE boundField(val, finfo, ft,
                    allocField(ft, valueAt(val.T, val.V, finfo.idx, 1), canSet), c)

\* unmarshal.go:452-459: the descriptor number n of ti, or none when n = 0
chosenField(val, canSet, ti, n) ==
    IF n = 0 THEN noField(val, ti.cache, FALSE)
    ELSE fieldValue(val, canSet, ti.tinfo.fields[n],
                    typeAt(val.T, ti.tinfo.fields[n].idx, 1), ti.cache)

\* unmarshal.go:429-456: the lookup in the descriptor ti of val's type
lookupField(val, name, canSet, ti) ==
    IF ti.err # "" THEN noField(val, ti.cache, FALSE)
    ELSE chosenField(val, canSet, ti, fieldIndex(ti.tinfo.fields, name))

\* unmarshal.go:427-468 (and part_000:312-353, the Encoder's copy):
\* [ok, panic, finfo, ft, f, val, cache]: the descriptor bound to name, the
\* bound field's type and value, and val after the allocations of the call;
\* canSet tells whether val is addressable.  panic: finfo.value sets a nil
\* pointer of a value that is not addressable.
findStructField(cache, val, name, canSet) ==
    lookupField(val, name, canSet, getTypeInfo(cache, val.T))

\* unmarshal.go:621-624: Special.UnmarshalText stores the text as it is
UnmarshalText(t, b) == [err |-> "", val |-> b]

\* unmarshal.go:401-416 and :505-515: [handled, err, val]: cur (of type t)
\* after encoding.TextUnmarshaler took src, when cur or its address
\* implements it
textUnmarshal(t, cur, src) ==
    IF Kind(t) = "Ptr" /\ Elem(t) \in PtrTextUnmarshalers
    THEN LET u == UnmarshalText(Elem(t), src)
         IN  [handled |-> TRUE, err |-> u.err,
              val |-> [nil |-> FALSE, elem |-> IF u.err = "" THEN u.val ELSE cur.elem]]
    ELSE IF t \in PtrTextUnmarshalers
    THEN LET u == UnmarshalText(t, src)
         IN  [handled |-> TRUE, err |-> u.err, val |-> IF u.err = "" THEN u.val ELSE cur]
    ELSE [handled |-> FALSE, err |-> "", val |-> cur]

RECURSIVE setValue(_, _, _, _)
\* unmarshal.go:470-563: [err, val]: dst (of type t) after src is stored
setValue(t, dst, src, fName) ==
    IF src = <<>> THEN [err |-> "", val |-> dst]
    ELSE IF Kind(t) = "Ptr"
    THEN LET in == setValue(Elem(t), dst.elem, src, fName)
         IN  [err |-> in.err, val |-> [nil |-> FALSE, elem |-> in.val]]
    ELSE IF Kind(t) = "Map"
    THEN IF Kind(GoTypes[t].Key) # "String"
         THEN [err |-> "map key type must be string",
               val |-> [nil |-> FALSE, m |-> dst.m]]
         ELSE IF Kind(Elem(t)) = "String"
         THEN [err |-> "", val |-> [nil |-> FALSE, m |-> (fName :> src) @@ dst.m]]
         ELSE \* unmarshal.go:501-521: the new entry is addressable, so the
              \* branch of line 516 is never taken: an entry that is no
              \* TextUnmarshaler stays the zero value
              LET z == IF Kind(Elem(t)) = "Ptr"
                       THEN [nil |-> FALSE, elem |-> Zero(Elem(Elem(t)))]
                       ELSE Zero(Elem(t))
                  u == textUnmarshal(Elem(t), z, src)
              IN  IF u.err # ""
                  THEN [err |-> u.err, val |-> [nil |-> FALSE, m |-> dst.m]]
                  ELSE [err |-> "",
                        val |-> [nil |-> FALSE, m |-> (fName :> u.val) @@ dst.m]]
    ELSE IF Kind(t) = "Int"
    THEN LET p == ParseInt(src)
         IN  IF p.ok THEN [err |-> "", val |-> p.val]
             ELSE [err |-> "strconv.ParseInt", val |-> dst]
    ELSE IF Kind(t) = "Float"
    THEN LET p == ParseFloat(src)
         IN  IF p.ok THEN [err |-> "", val |-> p.val]
             ELSE [err |-> "strconv.ParseFloat", val |-> dst]
    ELSE IF Kind(t) = "Bool"
    THEN LET p == ParseBool(TrimSpace(src))
         IN  IF p.ok THEN [err |-> "", val |-> p.val]
             ELSE [err |-> "strconv.ParseBool", val |-> dst]
    ELSE IF Kind(t) = "String"
    THEN [err |-> "", val |-> TrimSpace(src)]
    ELSE [err |-> "no method for unmarshaling type", val |-> dst]

\* a store that sets the field to its zero value for an empty token
storedBy_zeroesEmpty(t, f, tok, fName, tu) ==
    IF tu.handled THEN [err |-> tu.err, val |-> tu.val]
    ELSE IF tok = <<>> THEN [err |-> "", val |-> Zero(t)]
    ELSE setValue(t, f, tok, fName)

\* unmarshal.go:401-422: what the TextUnmarshaler made of the field, or
\* setValue when the field has none
storedBy(t, f, tok, fName, tu) ==
    IF tu.handled THEN [err |-> tu.err, val |-> tu.val]
    ELSE setValue(t, f, tok, fName)

\* unmarshal.go:401-422: [err, val]: the bound field f (of type t) after it
\* took the token: by its TextUnmarshaler when it has one, by setValue
\* otherwise
storeToken(t, f, tok, fName) == storedBy(t, f, tok, fName, textUnmarshal(t, f, tok))

RECURSIVE mapFields(_, _, _, _, _)

\* a storeField that counts the columns from 0
storeField_zeroBased(d, val, tokens, i, fName, r, sv) ==
    IF sv.err # ""
    THEN [err |-> DecodeError(d.lineNo, i - 1, fName, sv.err),
          val |-> r.val, cache |-> r.cache]
    ELSE mapFields(d, r.cache,
                   [val EXCEPT !.V = withValueAt(val.T, r.val.V, r.finfo.idx, 1, sv.val)],
                   tokens, i + 1)

\* unmarshal.go:419-421: the outcome sv of storing the i-th token in the
\* field r binds: a DecodeError, or on to the next name
storeField(d, val, tokens, i, fName, r, sv) ==
    IF sv.err # ""
    THEN [err |-> DecodeError(d.lineNo, i, fName, sv.err),
          val |-> r.val, cache |-> r.cache]
    ELSE mapFields(d, r.cache,
                   [val EXCEPT !.V = withValueAt(val.T, r.val.V, r.finfo.idx, 1, sv.val)],
                   tokens, i + 1)

\* unmarshal.go:391-421: the i-th token tok goes to the field r that
\* findStructField bound to the i-th name
assignField(d, val, tokens, i, fName, tok, r) ==
    IF ~r.ok
    THEN IF d.skipUnknown
         THEN mapFields(d, r.cache, val, tokens, i + 1)
         ELSE [err |-> DecodeError(d.lineNo, i, fName, "field not found"),
               val |-> val, cache |-> r.cache]
    ELSE storeField(d, val, tokens, i, fName, r, storeToken(r.ft, r.f, tok, fName))

\* unmarshal.go:377-422: one round of the loop, for the name fName and the
\* token tok as trimmed and unquoted
mapField(d, cache, val, tokens, i, fName, tok) ==
    IF Kind(val.T) = "Map"
    THEN IF val.V.nil
         THEN [err |-> Panic("assignment to entry in nil map"),
               val |-> val, cache |-> cache]
         ELSE mapFields(d, cache, [val EXCEPT !.V.m = (fName :> tok) @@ @],
                        tokens, i + 1)
    ELSE assignField(d, val, tokens, i, fName, tok,
                     findStructField(cache, val, fName, TRUE))

\* unmarshal.go:377-424: the loop over the header, from its i-th name on
\* (i counts from 1, as DecodeError's field position does); [err, val, cache]
mapFields(d, cache, val, tokens, i) ==
    IF i > Len(d.headerKeys) THEN [err |-> NoError, val |-> val, cache |-> cache]
    ELSE mapField(d, cache, val, tokens, i, d.headerKeys[i],
                  ReplaceQuotes(IF d.trim THEN TrimSpace(tokens[i]) ELSE tokens[i]))

\* the method UnmarshalCSV of M (unmarshal.go:74-76): it counts its calls
\* and keeps the two slices it was handed
UnmarshalCSV(val, header, values) ==
    [err |-> NoError, val |-> [val EXCEPT !.V = <<@[1] + 1, header, values>>]]

\* unmarshal.go:363-374: the record unmarshals itself
unmarshalSelf(d, cache, val, tokens, u) == [err |-> u.err, val |-> u.val, cache |-> cache]

\* an unmarshal that hands the tokens to UnmarshalCSV before it counts them
unmarshalTokens_uncounted(d, cache, val, tokens) ==
    IF val.T \in Unmarshalers
    THEN unmarshalSelf(d, cache, val, tokens, UnmarshalCSV(val, d.headerKeys, tokens))
    ELSE IF Len(tokens) # Len(d.headerKeys)
    THEN [err |-> DecodeError(d.lineNo, 0, "number of fields does not match header", ""),
          val |-> val, cache |-> cache]
    ELSE mapFields(d, cache, val, tokens, 1)

\* unmarshal.go:355-424: the merged tokens are counted against the header
\* and handed to the record's UnmarshalCSV or mapped to the fields
unmarshalTokens(d, cache, val, tokens) ==
    IF Len(tokens) # Len(d.headerKeys)
    THEN \* unmarshal.go:356: the message is the hint, the reason is nil
         [err |-> DecodeError(d.lineNo, 0, "number of fields does not match header", ""),
          val |-> val, cache |-> cache]
    ELSE IF val.T \in Unmarshalers
    THEN unmarshalSelf(d, cache, val, tokens, UnmarshalCSV(val, d.headerKeys, tokens))
    ELSE mapFields(d, cache, val, tokens, 1)

\* unmarshal.go:313-425: [err, val, cache]; val is the value the argument
\* points to
unmarshal(d, cache, val, line) == unmarshalTokens(d, cache, val, tokenize(line, d.sep))

\* unmarshal.go:305-311
DecodeRecord(d, cache, val, line) == unmarshal(d, cache, val, line)

RECURSIVE ordinaryNames(_, _)
\* unmarshal.go:242-246: the names of the descriptors without fAny, from
\* the k-th on
ordinaryNames(fields, k) ==
    IF k > Len(fields) THEN <<>>
    ELSE (IF fAny \notin fields[k].flags THEN <<fields[k].name>> ELSE <<>>)
         \o ordinaryNames(fields, k + 1)

RECURSIVE decodeLines(_, _, _)

\* unmarshal.go:264-269: the header line was taken: h is DecodeHeader's
\* outcome
headerLine(cache, v, h) ==
    IF h.err.kind # "nil"
    THEN [d |-> h.d, cache |-> cache, v |-> v, err |-> h.err]
    ELSE decodeLines(h.d, cache, v)

\* a loop that appends the element of the failing line before it returns
recordLine_appendsFailed(d1, v, u) ==
    IF u.err.kind # "nil"
    THEN [d |-> d1, cache |-> u.cache, v |-> [v EXCEPT !.V = Append(@, u.val.V)],
          err |-> u.err]
    ELSE decodeLines(d1, u.cache, [v EXCEPT !.V = Append(@, u.val.V)])

\* unmarshal.go:274-279: u is the outcome of unmarshal into the fresh
\* element, which is appended when there was no error
recordLine(d1, v, u) ==
    IF u.err.kind # "nil"
    THEN [d |-> d1, cache |-> u.cache, v |-> v, err |-> u.err]
    ELSE decodeLines(d1, u.cache, [v EXCEPT !.V = Append(@, u.val.V)])

\* unmarshal.go:252-279: the line the scanner returned, d1 the decoder after
\* the scan
decodeLine(d, d1, cache, v, line) ==
    IF skipLine(d, line) THEN decodeLines(d1, cache, v)
    ELSE IF Len(d1.headerKeys) = 0 /\ d1.readHeader
    THEN headerLine(cache, v, DecodeHeader(d1, line))
    ELSE \* unmarshal.go:273: reflect.New(val.Type().Elem())
         recordLine(d1, v, unmarshal(d1, cache,
                                     GoValue(Elem(v.T), Zero(Elem(v.T))), line))

\* unmarshal.go:250-285: the scanner loop of Decode; [d, cache, v, err]
decodeLines(d, cache, v) ==
    IF Len(d.s) = 0 THEN [d |-> d, cache |-> cache, v |-> v, err |-> scanErr(d)]
    ELSE decodeLine(d, [d EXCEPT !.s = Tail(d.s), !.lineNo = @ + 1], cache, v,
                    Head(d.s))

\* unmarshal.go:237-247: without a header line in the input, the names of
\* the element type's descriptors are appended to the header; [d, cache, err]
headerFromType(d, cache, typ) ==
    LET named(ti) ==
            IF ti.err # "" THEN [d |-> d, cache |-> ti.cache, err |-> Errorf(ti.err)]
            ELSE [d |-> [d EXCEPT !.headerKeys = @ \o ordinaryNames(ti.tinfo.fields, 1)],
                  cache |-> ti.cache, err |-> NoError]
    IN  named(getTypeInfo(cache, typ))

\* unmarshal.go:236-250: p is the header as prepared; the loop runs when
\* that gave no error
decodeFrom(v, p) ==
    IF p.err.kind # "nil"
    THEN [d |-> p.d, cache |-> p.cache, v |-> v, err |-> p.err]
    ELSE decodeLines(p.d, p.cache, v)

\* unmarshal.go:225-286: [d, cache, v, err]; v is the value the argument
\* points to
Decode(d, cache, v) ==
    IF Kind(v.T) # "Slice"
    THEN [d |-> d, cache |-> cache, v |-> v,
          err |-> Errorf("csv: non-slice passed to Unmarshal")]
    ELSE decodeFrom(v, IF d.readHeader THEN [d |-> d, cache |-> cache, err |-> NoError]
                       ELSE headerFromType(d, cache, indirectType(Elem(v.T))))

\* unmarshal.go:177-179: [v, err, cache]
Unmarshal(data, cache, v) ==
    LET result(r) == [v |-> r.v, err |-> r.err, cache |-> r.cache]
    IN  result(Decode(NewDecoder(data), cache, v))

(***************************************************************************)
(* unnamed/part_000: the Encoder                                           *)
(***************************************************************************)
\* part_000:46-53; w holds the bytes written to the sink
NewEncoder ==
    [w |-> <<>>, sep |-> Separator, trim |-> TRUE, writeHeader |-> TRUE,
     headerKeys |-> <<>>]

\* part_000:186-196: the sink is a buffer, whose Write does not fail
output(e, fields) == [e EXCEPT !.w = @ \o Join(fields, e.sep) \o <<"\n">>]

\* part_000:179-182: the names of all the descriptors, in their order
allNames(fields) == [k \in 1..Len(fields) |-> fields[k].name]

\* part_000:162-184: [e, cache, err]; val is the sample value, or what it
\* points to
buildHeader(e, cache, fields, val) ==
    LET named(ti) ==
            IF ti.err # "" THEN [e |-> e, cache |-> ti.cache, err |-> Errorf(ti.err)]
            ELSE [e |-> [e EXCEPT !.headerKeys = allNames(ti.tinfo.fields)],
                  cache |-> ti.cache, err |-> NoError]
    IN  IF Len(e.headerKeys) > 0 THEN [e |-> e, cache |-> cache, err |-> NoError]
        ELSE IF Len(fields) > 0
        THEN [e |-> [e EXCEPT !.headerKeys = fields], cache |-> cache, err |-> NoError]
        ELSE named(getTypeInfo(cache, val.T))

\* an EncodeHeader that writes the header line whatever writeHeader is
EncodeHeader_alwaysWrites(e, cache, fields, val) ==
    LET write(b) ==
            IF b.err.kind # "nil" THEN b
            ELSE [e |-> output(b.e, b.e.headerKeys), cache |-> b.cache, err |-> NoError]
    IN  write(buildHeader(e, cache, fields, val))

\* part_000:139-147: [e, cache, err]
EncodeHeader(e, cache, fields, val) ==
    LET write(b) ==
            IF b.err.kind # "nil" \/ ~b.e.writeHeader THEN b
            ELSE [e |-> output(b.e, b.e.headerKeys), cache |-> b.cache, err |-> NoError]
    IN  write(buildHeader(e, cache, fields, val))

\* part_000:357-393: [err, s]: the text of val (of type t)
marshalSimple(t, val) ==
    IF t \in Stringers THEN [err |-> "", s |-> val]
    ELSE IF Kind(t) = "Int" THEN [err |-> "", s |-> FormatInt(val)]
    ELSE IF Kind(t) = "Float" THEN [err |-> "", s |-> FormatFloat(val)]
    ELSE IF Kind(t) = "String" THEN [err |-> "", s |-> val]
    ELSE IF Kind(t) = "Bool" THEN [err |-> "", s |-> FormatBool(val)]
    ELSE [err |-> "no method for marshalling type", s |-> <<>>]

\* the MarshalText of Loud and of Quiet: the text after an exclamation mark
MarshalText(t, x) == <<"!">> \o x

\* part_000:284-293: the token after the field's address was tried as a text
\* marshaler
addrText(canAddr, t, f) ==
    IF canAddr /\ t \in PtrTextMarshalers THEN MarshalText(t, f) ELSE <<>>

\* part_000:298-301: the token after marshalSimple gave s, whatever it held
simpleText(tok, s) == s

RECURSIVE marshalFields(_, _, _, _, _, _)

\* a loop that has no token for a name that gave no text
nextField_dropsEmpty(e, canAddr, tokens, i, r, tok) ==
    marshalFields(e, r.cache, r.val, canAddr,
                  IF tok = <<>> THEN tokens ELSE Append(tokens, tok), i + 1)

\* part_000:255-307: the i-th token is tok; on to the next name
nextField(e, canAddr, tokens, i, r, tok) ==
    marshalFields(e, r.cache, r.val, canAddr, Append(tokens, tok), i + 1)

\* part_000:294-306: m is marshalSimple's outcome for the bound field
fieldText(e, canAddr, tokens, i, r, m) ==
    IF m.err # ""
    THEN [err |-> Errorf(m.err), tokens |-> tokens, val |-> r.val, cache |-> r.cache]
    ELSE nextField(e, canAddr, tokens, i, r,
                   IF e.trim THEN TrimSpace(simpleText(addrText(canAddr, r.ft, r.f), m.s))
                   ELSE simpleText(addrText(canAddr, r.ft, r.f), m.s))

\* part_000:259-306: r is what findStructField bound to the i-th name
marshalField(e, val, canAddr, tokens, i, r) ==
    IF r.panic
    THEN [err |-> Panic("reflect: reflect.Value.Set using unaddressable value"),
          tokens |-> tokens, val |-> val, cache |-> r.cache]
    ELSE IF ~r.ok \/ fElement \notin r.finfo.flags
    THEN nextField(e, canAddr, tokens, i, r, <<>>)
    ELSE IF Kind(r.ft) = "Ptr" /\ r.f.nil THEN nextField(e, canAddr, tokens, i, r, <<>>)
    ELSE IF r.ft \in TextMarshalers
    THEN \* part_000:275-282: the token is MarshalText's, and the round is over
         nextField(e, canAddr, tokens, i, r, MarshalText(r.ft, r.f))
    ELSE fieldText(e, canAddr, tokens, i, r, marshalSimple(r.ft, r.f))

\* part_000:255-307: the loop over the header, from its i-th name on;
\* [err, tokens, val, cache]
marshalFields(e, cache, val, canAddr, tokens, i) ==
    IF i > Len(e.headerKeys)
    THEN [err |-> NoError, tokens |-> tokens, val |-> val, cache |-> cache]
    ELSE marshalField(e, val, canAddr, tokens, i,
                      findStructField(cache, val, e.headerKeys[i], canAddr))

NeverNil == {"String", "Bool", "Int", "Float", "Struct"}

\* part_000:244: m is marshalSimple's outcome for an element; [err, s]
elementSimple(m) ==
    IF m.err # "" THEN [err |-> Errorf(m.err), s |-> <<>>] ELSE [err |-> NoError, s |-> m.s]

\* part_000:232-250: the text of an element f (of type t) of a slice;
\* [err, s]
elementText(t, f) ==
    IF Kind(t) \in NeverNil
    THEN \* part_000:233: IsNil of a value that is never nil
         [err |-> Panic("reflect: call of reflect.Value.IsNil"), s |-> <<>>]
    ELSE IF Kind(t) \in {"Ptr", "Map"} /\ f.nil THEN [err |-> NoError, s |-> <<>>]
    ELSE IF Kind(t) = "Ptr" THEN elementSimple(marshalSimple(Elem(t), f.elem))
    ELSE elementSimple(marshalSimple(t, f))

RECURSIVE sliceTokens(_, _, _, _)

\* part_000:244-250: m is the text of the i-th element
elementDone(cache, val, tokens, i, m) ==
    IF m.err.kind # "nil"
    THEN [err |-> m.err, tokens |-> tokens, val |-> val, cache |-> cache]
    ELSE sliceTokens(cache, val, Append(tokens, m.s), i + 1)

\* part_000:230-252: the loop over the elements of a slice, from the i-th
\* on; [err, tokens, val, cache]
sliceTokens(cache, val, tokens, i) ==
    IF i > Len(val.V)
    THEN [err |-> NoError, tokens |-> tokens, val |-> val, cache |-> cache]
    ELSE elementDone(cache, val, tokens, i, elementText(Elem(val.T), val.V[i]))

\* part_000:198-310: [e, cache, err, val]; val is the value handed in, or
\* what it points to, canAddr whether it was handed in by pointer; the val
\* of the outcome is the caller's value after the call
marshal(e, cache, val, canAddr) ==
    LET write(r) ==
            IF r.err.kind # "nil"
            THEN [e |-> e, cache |-> r.cache, err |-> r.err, val |-> r.val]
            ELSE [e |-> output(e, r.tokens), cache |-> r.cache, err |-> NoError,
                  val |-> r.val]
    IN  IF Kind(val.T) = "Slice" /\ Len(val.V) = Len(e.headerKeys)
        THEN write(sliceTokens(cache, val, <<>>, 1))
        ELSE write(marshalFields(e, cache, val, canAddr, <<>>, 1))

\* part_000:156-159: h is the header as prepared; the record is written
\* when that gave no error
marshalRecord(val, canAddr, h) ==
    IF h.err.kind # "nil" THEN [e |-> h.e, cache |-> h.cache, err |-> h.err, val |-> val]
    ELSE marshal(h.e, h.cache, val, canAddr)

\* part_000:150-160: [e, cache, err, val]
EncodeRecord(e, cache, val, canAddr) ==
    marshalRecord(val, canAddr,
                  IF Len(e.headerKeys) = 0 THEN EncodeHeader(e, cache, <<>>, val)
                  ELSE [e |-> e, cache |-> cache, err |-> NoError])

RECURSIVE encodeRecords(_, _, _, _)

\* part_000:125-127: r is EncodeRecord's outcome for the i-th element
recordWritten(v, i, r) ==
    IF r.err.kind # "nil" THEN [e |-> r.e, cache |-> r.cache, err |-> r.err]
    ELSE encodeRecords(r.e, r.cache, v, i + 1)

\* part_000:124-128: the loop over the slice, from its i-th element on
encodeRecords(e, cache, v, i) ==
    IF i > Len(v.V) THEN [e |-> e, cache |-> cache, err |-> NoError]
    ELSE recordWritten(v, i, EncodeRecord(e, cache, GoValue(Elem(v.T), v.V[i]), FALSE))

\* part_000:119-128: h is EncodeHeader's outcome for the first element
encodeFrom(v, h) ==
    IF h.err.kind # "nil" THEN h ELSE encodeRecords(h.e, h.cache, v, 1)

\* part_000:108-130: [e, cache, err]; v is the value handed in, or what it
\* points to
Encode(e, cache, v) ==
    IF Kind(v.T) # "Slice"
    THEN [e |-> e, cache |-> cache,
          err |-> Errorf("csv: non-slice type passed to Marshal")]
    ELSE IF Len(v.V) = 0
    THEN \* part_000:119: val.Index(0) of an empty slice
         [e |-> e, cache |-> cache,
          err |-> Panic("reflect: slice index out of range")]
    ELSE encodeFrom(v, EncodeHeader(e, cache, <<>>, GoValue(Elem(v.T), v.V[1])))

\* part_000:96-102: [data, err, cache]
Marshal(cache, v) ==
    LET result(r) == [data |-> IF r.err.kind = "nil" THEN r.e.w ELSE <<>>,
                      err |-> r.err, cache |-> r.cache]
    IN  result(Encode(NewEncoder, cache, v))

(***************************************************************************)
(* The state: one Decoder, one Encoder, the process-wide descriptor cache  *)
(* (typeinfo.go:55) and what the caller holds of its last call.  A call is *)
(* made when the caller holds nothing (ret.op = "none") or, for the calls  *)
(* that take the line ReadLine returned, right after ReadLine; Return is   *)
(* the caller dropping what it holds.                                      *)
(***************************************************************************)
VARIABLES d, e, tinfoMap, ret, routines

vars == <<d, e, tinfoMap, ret, routines>>

NoCall == [op |-> "none"]
Idle == ret.op = "none"

\* the goroutines that call getTypeInfo side by side: of each the frames of
\* its calls in progress, the innermost last, and what its call returned
Routines == 1..MaxRoutines
NoResult == [err |-> "none"]
NoRoutines == [p \in Routines |-> [stack |-> <<>>, got |-> NoResult]]

SeqsUpTo(S, n) == UNION {[1..k -> S] : k \in 0..n}

\* unmarshal.go:137-140
Trim(t) ==
    /\ Idle /\ d.trim # t
    /\ d' = [d EXCEPT !.trim = t]
    /\ UNCHANGED <<e, tinfoMap, ret, routines>>

\* unmarshal.go:145-148
SkipUnknown(t) ==
    /\ Idle /\ d.skipUnknown # t
    /\ d' = [d EXCEPT !.skipUnknown = t]
    /\ UNCHANGED <<e, tinfoMap, ret, routines>>

\* unmarshal.go:117-120
Header(h) ==
    /\ Idle /\ d.readHeader # h
    /\ d' = [d EXCEPT !.readHeader = h]
    /\ UNCHANGED <<e, tinfoMap, ret, routines>>

\* unmarshal.go:202-218
ReadLineCall ==
    LET done(r) ==
            /\ d' = r.d
            /\ ret' = [op |-> "ReadLine", pre |-> d, line |-> r.line, err |-> r.err]
    IN  done(ReadLine(d)) /\ UNCHANGED <<e, tinfoMap, routines>>

\* unmarshal.go:290-301
DecodeHeaderCall(line) ==
    LET done(r) ==
            /\ d' = r.d
            /\ ret' = [op |-> "DecodeHeader", pre |-> d, line |-> line, err |-> r.err]
    IN  done(DecodeHeader(d, line)) /\ UNCHANGED <<e, tinfoMap, routines>>

\* unmarshal.go:305-311: val is the value the argument points to
DecodeRecordCall(val, line) ==
    LET done(r) ==
            /\ tinfoMap' = r.cache
            /\ ret' = [op |-> "DecodeRecord", pre |-> d, line |-> line, val0 |-> val,
                       val |-> r.val, err |-> r.err]
    IN  done(DecodeRecord(d, tinfoMap, val, line)) /\ UNCHANGED <<d, e, routines>>

\* unmarshal.go:225-286: v is the slice the argument points to
DecodeCall(v) ==
    LET done(r) ==
            /\ d' = r.d
            /\ tinfoMap' = r.cache
            /\ ret' = [op |-> "Decode", pre |-> d, v0 |-> v, v |-> r.v, err |-> r.err]
    IN  done(Decode(d, tinfoMap, v)) /\ UNCHANGED <<e, routines>>

\* the caller drops the result of its last call
Return ==
    /\ ~Idle
    /\ ret' = NoCall
    /\ UNCHANGED <<d, e, tinfoMap, routines>>

(***************************************************************************)
(* SpecLine: one Decoder without input, given a header with DecodeHeader   *)
(* and lines with DecodeRecord; the lines are all the texts of up to       *)
(* MaxLineLen characters over LineChars.                                   *)
(***************************************************************************)
LineChars == {"a", ",", "\"", " "}
CharLines == SeqsUpTo(LineChars, MaxLineLen)

\* lines with a number in them
NumberLines == {<<"a", ",", "1">>, <<"a", ",", "x">>, <<" ", "a", " ", ",", "7">>,
                <<"a", ",", "1", ",", "a">>, <<"1", ",", "a">>, <<"a", ",", ",", "1">>}

HeaderLines == {<<"s">>, <<"s", ",", "x">>, <<"x", ",", "s">>, <<"s", ",", "i">>,
                <<"s", ",", "x", ",", "i">>, <<" ", "s", ",", "x", " ">>}

\* the values DecodeRecord is handed a pointer to
LineTargets == {GoValue("mapSS", [nil |-> FALSE, m |-> <<>>]),
                GoValue("P", Zero("P")),
                GoValue("P", <<<<"b">>, 5>>),
                GoValue("B", Zero("B")),
                GoValue("M", Zero("M"))}

LineTrim == \E t \in BOOLEAN : Trim(t)
LineSkipUnknown == \E t \in BOOLEAN : SkipUnknown(t)
LineDecodeHeader == Idle /\ \E line \in HeaderLines : DecodeHeaderCall(line)
LineDecodeRecord ==
    Idle /\ \E val \in LineTargets, line \in CharLines \cup NumberLines :
                DecodeRecordCall(val, line)

InitLine ==
    /\ d = NewDecoder(<<>>)
    /\ e = NewEncoder
    /\ tinfoMap = <<>>
    /\ ret = NoCall
    /\ routines = NoRoutines

NextLine ==
    \/ LineTrim
    \/ LineSkipUnknown
    \/ LineDecodeHeader
    \/ LineDecodeRecord
    \/ Return

SpecLine == InitLine /\ [][NextLine]_vars

(***************************************************************************)
(* Properties of DecodeHeader and DecodeRecord, checked under SpecLine.     *)
(* While ret holds a call, d and tinfoMap are the state the call left.      *)
(***************************************************************************)
NoQuoteIn(s) == \A k \in 1..Len(s) : s[k] # Wrapper
NoSeparatorIn(s) == \A k \in 1..Len(s) : s[k] # Separator

\* the text of a token after the trimming the decoder is configured for
Cooked(tok, trim) == IF trim THEN TrimSpace(tok) ELSE tok

\* the text between the first and the last character of a line
Between(line) == SubSeq(line, 2, Len(line) - 1)

RECURSIVE Keep(_, _, _)
\* the elements of s, from the k-th on, whose position is in pos
Keep(s, pos, k) ==
    IF k > Len(s) THEN <<>>
    ELSE (IF k \in pos THEN <<s[k]>> ELSE <<>>) \o Keep(s, pos, k + 1)

DecodedRecord == ret.op = "DecodeRecord"

\* a line DecodeRecord was given that has no quote in it and as many tokens
\* as the header has names
PlainRecord ==
    /\ DecodedRecord
    /\ NoQuoteIn(ret.line)
    /\ Len(Split(ret.line, Separator)) = Len(ret.pre.headerKeys)

\* the names of the ordinary fields of the struct types decoded into
OrdinaryNames(t) ==
    IF t = "P" THEN {<<"s">>, <<"i">>}
    ELSE IF t = "B" THEN {<<"s">>, <<"b">>, <<"i">>, <<"f">>}
    ELSE {}

\* the positions of the header names that name no ordinary field of t
UnknownColumns(keys, t) == {k \in 1..Len(keys) : keys[k] \notin OrdinaryNames(t)}

\* C3: after a record is decoded into a struct with ordinary fields and one
\* catch-all map field (type B), the map holds exactly one entry name -> token
\* for every header name that matches no ordinary field and no entry for a
\* name that matches one, and the ordinary fields hold the converted values
\* of their columns (here the string field s and the integer field i).
C3_CatchAllCapture ==
    (PlainRecord /\ ret.val0.T = "B" /\ ret.err.kind = "nil")
    => LET keys == ret.pre.headerKeys
           toks == [k \in 1..Len(keys) |->
                      Cooked(Split(ret.line, Separator)[k], ret.pre.trim)]
           any == ret.val.V[5]
       IN  /\ DOMAIN any.m = {keys[k] : k \in UnknownColumns(keys, "B")}
           /\ \A k \in 1..Len(keys) :
                /\ k \in UnknownColumns(keys, "B") => any.m[keys[k]] = toks[k]
                /\ keys[k] = <<"s">> => ret.val.V[1] = TrimSpace(toks[k])
                /\ (keys[k] = <<"i">> /\ toks[k] # <<>>)
                       => ret.val.V[3] = ParseInt(toks[k]).val

\* C4: under a header with a name that no field of the target struct
\* matches (type P, which has no catch-all field), a data line fails with a
\* DecodeError when skip-unknown is disabled; with skip-unknown enabled the
\* decode does what decoding the line without the unknown columns under the
\* header without them does: the same fields are assigned the same values,
\* and it succeeds when that decode succeeds.
C4_UnknownFieldPolicy ==
    (PlainRecord /\ ret.val0.T = "P" /\ UnknownColumns(ret.pre.headerKeys, "P") # {})
    => LET keys == ret.pre.headerKeys
           known == (1..Len(keys)) \ UnknownColumns(keys, "P")
           without == unmarshal([ret.pre EXCEPT !.headerKeys = Keep(keys, known, 1)],
                                tinfoMap, ret.val0,
                                Join(Keep(Split(ret.line, Separator), known, 1),
                                     Separator))
       IN  IF ~ret.pre.skipUnknown
           THEN ret.err.kind = "DecodeError"
           ELSE known # {} => /\ ret.val = without.val
                              /\ ret.err.kind = without.err.kind

\* C4 happens: with skip-unknown enabled a line was decoded under the header
\* x,s and the column of s was assigned
C4_Witness ==
    /\ DecodedRecord /\ ret.pre.skipUnknown
    /\ ret.pre.headerKeys = <<<<"x">>, <<"s">>>>
    /\ ret.val0 = GoValue("P", Zero("P"))
    /\ ret.line = <<"a", ",", "a">>
    /\ ret.err.kind = "nil"
    /\ ret.val.V[1] = <<"a">>

\* the tokens of the line DecodeRecord was given, as the loop over the
\* header takes them: merged, trimmed when trimming is enabled, and with
\* doubled quotes replaced
LoopTokens ==
    [k \in 1..Len(tokenize(ret.line, Separator)) |->
        ReplaceQuotes(Cooked(tokenize(ret.line, Separator)[k], ret.pre.trim))]

\* the columns of a record of type P whose token is empty
EmptyColumns(keys, toks) ==
    {k \in 1..Len(keys) : keys[k] \in OrdinaryNames("P") /\ toks[k] = <<>>}

\* the position in a record of type P of the field with the external name
FieldOfP(name) == IF name = <<"s">> THEN 1 ELSE 2

\* C26: decoding an empty token into an ordinary primitive field (here the
\* string and the integer field of type P) is a no-op: the column gives no
\* error and the field keeps the value it had, the zero value in a fresh
\* record; the other columns of the line are still assigned.
C26_EmptyTokenNoOp ==
    (DecodedRecord /\ ret.val0.T = "P"
        /\ Len(tokenize(ret.line, Separator)) = Len(ret.pre.headerKeys)
        /\ EmptyColumns(ret.pre.headerKeys, LoopTokens) # {})
    => LET keys == ret.pre.headerKeys
           toks == LoopTokens
           empty == EmptyColumns(keys, toks)
       IN  /\ ret.err.fieldNo \notin empty
           /\ \A k \in empty :
                ret.val.V[FieldOfP(keys[k])] = ret.val0.V[FieldOfP(keys[k])]
           /\ ret.err.kind = "nil"
              => \A k \in (1..Len(keys)) \ empty :
                   /\ keys[k] = <<"s">> => ret.val.V[1] = TrimSpace(toks[k])
                   /\ keys[k] = <<"i">> => ret.val.V[2] = ParseInt(toks[k]).val

\* C26 happens: the line a, was decoded under the header s,i into a record
\* that held b and 5: the integer field still holds 5, the string field a
C26_Witness ==
    /\ DecodedRecord /\ ret.err.kind = "nil"
    /\ ret.pre.headerKeys = <<<<"s">>, <<"i">>>>
    /\ ret.line = <<"a", ",">>
    /\ ret.val0 = GoValue("P", <<<<"b">>, 5>>)
    /\ ret.val = GoValue("P", <<<<"a">>, 5>>)

\* the characters of s that are neither the quote nor the separator
TextOf(s) == Keep(s, {k \in 1..Len(s) : s[k] \notin {Wrapper, Separator}}, 1)

\* q is found in s
Contains(s, q) == \E k \in 0..(Len(s) - Len(q)) : SubSeq(s, k + 1, k + Len(q)) = q

\* the raw pieces of a line that open a quote no piece closes: the only
\* quote of the line is the first character of the piece, and text follows
OpenPieces(line) ==
    {k \in 1..Len(Split(line, Separator)) :
        /\ Len(Split(line, Separator)[k]) >= 2
        /\ HasPrefix(Split(line, Separator)[k], Wrapper)
        /\ Len(TextOf(line)) = Len(line) - (Len(Split(line, Separator)) - 1) - 1}

\* C28: the tokenizer discards no field text: the tokens of a line hold the
\* characters of its raw pieces, the quotes around them apart, and a line
\* with an opening quote that is never closed either fails with a
\* DecodeError or has its quoted text in some decoded field.  The fields are
\* observed on a map target.
C28_NoTextDiscarded ==
    DecodedRecord
    => /\ TextOf(Join(tokenize(ret.line, Separator), Separator)) = TextOf(ret.line)
       /\ \A k \in OpenPieces(ret.line) :
              ret.val0.T = "mapSS"
              => \/ ret.err.kind = "DecodeError"
                 \/ \E key \in DOMAIN ret.val.V.m :
                        Contains(ret.val.V.m[key],
                                 Cooked(Tail(Split(ret.line, Separator)[k]),
                                        ret.pre.trim))

\* the case C28 fails in: the line ,"a was decoded into an empty map under
\* the header s without an error; the text a is in no token and the map
\* holds it nowhere
C28_Witness ==
    /\ DecodedRecord /\ ret.err.kind = "nil"
    /\ ret.pre.headerKeys = <<<<"s">>>>
    /\ ret.line = <<",", "\"", "a">>
    /\ ret.val0 = GoValue("mapSS", [nil |-> FALSE, m |-> <<>>])
    /\ tokenize(ret.line, Separator) = <<<<>>>>
    /\ \A key \in DOMAIN ret.val.V.m : ret.val.V.m[key] = <<>>

\* a raw token that starts and ends with the quote character
SelfQuoted(line) ==
    /\ Len(line) >= 2 /\ line[1] = Wrapper /\ line[Len(line)] = Wrapper
    /\ NoSeparatorIn(line)

\* C7: a self-contained quoted token (it starts and ends with the quote
\* character, the two-character token of two quotes included) decodes to
\* exactly the text between its two surrounding quotes, every doubled quote
\* inside replaced by one quote; the token of two quotes decodes to the empty
\* string.  Observed on a map target under a header of one name.
C7_SelfContainedQuotedToken ==
    (DecodedRecord /\ ret.val0.T = "mapSS" /\ Len(ret.pre.headerKeys) = 1
        /\ SelfQuoted(ret.line))
    => /\ ret.err.kind = "nil"
       /\ ret.val.V.m[ret.pre.headerKeys[1]]
              = ReplaceQuotes(Cooked(Between(ret.line), ret.pre.trim))

\* a quoted field with separators inside and no further quote
QuotedWithSeparators(line) ==
    /\ Len(line) >= 3 /\ line[1] = Wrapper /\ line[Len(line)] = Wrapper
    /\ NoQuoteIn(Between(line))
    /\ ~NoSeparatorIn(Between(line))

\* C8: a quoted field whose content contains one or more separators is
\* returned by the tokenizer as a single token equal to the content between
\* the quotes, wherever the separators fall inside the quotes, directly after
\* the opening quote or directly before the closing quote included.
\* Observed on a map target under a header of one name.
C8_QuotedFieldMerge ==
    (DecodedRecord /\ ret.val0.T = "mapSS" /\ Len(ret.pre.headerKeys) = 1
        /\ QuotedWithSeparators(ret.line))
    => /\ ret.err.kind = "nil"
       /\ ret.val.V.m[ret.pre.headerKeys[1]] = Cooked(Between(ret.line), ret.pre.trim)

\* C9: with trimming enabled, header names and string field values have their
\* leading and trailing whitespace removed; with trimming disabled they are
\* kept as they are.  On the decoding side: the names DecodeHeader stores,
\* and the string field s of a P that DecodeRecord assigns from a token that
\* is not all whitespace.
C9_WhitespaceTrimming ==
    /\ (ret.op = "DecodeHeader" /\ ret.err.kind = "nil")
       => d.headerKeys = [k \in 1..Len(Split(ret.line, Separator)) |->
                            Cooked(Split(ret.line, Separator)[k], ret.pre.trim)]
    /\ (PlainRecord /\ ret.val0.T = "P" /\ ret.err.kind = "nil")
       => \A k \in 1..Len(ret.pre.headerKeys) :
            (ret.pre.headerKeys[k] = <<"s">>
                /\ TrimSpace(Split(ret.line, Separator)[k]) # <<>>)
            => ret.val.V[1] = Cooked(Split(ret.line, Separator)[k], ret.pre.trim)

\* the header Decode builds for a slice of t when no header line is expected
TypeHeader(t) == headerFromType(NewDecoder(<<>>), <<>>, t).d.headerKeys

\* C12: DecodeRecord on a Decoder that holds no header derives the header
\* from the type of the record argument (the ordinary fields in declaration
\* order, the header Decode builds when no header is expected) and decodes
\* the line against that header.
C12_HeaderMissingFallback ==
    (DecodedRecord /\ ret.pre.headerKeys = <<>> /\ Kind(ret.val0.T) = "Struct")
    => LET against == unmarshal([ret.pre EXCEPT !.headerKeys = TypeHeader(ret.val0.T)],
                                <<>>, ret.val0, ret.line)
       IN  /\ d.headerKeys = TypeHeader(ret.val0.T)
           /\ ret.err = against.err
           /\ ret.val = against.val

\* was the record's UnmarshalCSV called (the record is a fresh M)
Called == ret.val.V[1] = 1

\* C13: whenever the decoder calls a record's UnmarshalCSV(header, values)
\* the two slices have equal length (the header is the decoder's, the values
\* are the merged tokens of the line); a line whose token count differs from
\* the header length fails without reaching UnmarshalCSV.
C13_UnmarshalCSVEqualLength ==
    (DecodedRecord /\ ret.val0.T = "M")
    => /\ ret.val.V[1] \in {0, 1}
       /\ Called => /\ Len(ret.val.V[2]) = Len(ret.val.V[3])
                    /\ ret.val.V[2] = ret.pre.headerKeys
                    /\ ret.val.V[3] = tokenize(ret.line, Separator)
       /\ Len(tokenize(ret.line, Separator)) # Len(ret.pre.headerKeys)
              => ~Called /\ ret.err.kind = "DecodeError" /\ ret.val = ret.val0

\* C13 happens: under the header s a quoted field that the separator splits
\* in two was merged into one token and reached UnmarshalCSV
C13_Witness ==
    /\ DecodedRecord /\ ret.val0 = GoValue("M", Zero("M"))
    /\ ret.pre.headerKeys = <<<<"s">>>>
    /\ ret.line = <<"\"", ",", "a", "\"">>
    /\ Called /\ ret.err.kind = "nil"
    /\ Len(ret.val.V[2]) = 1 /\ Len(ret.val.V[3]) = 1

(***************************************************************************)
(* SpecDec: one Decoder over an input of up to MaxLines lines from          *)
(* StreamLines, read with Decode into a slice of P, or line by line with    *)
(* ReadLine followed by DecodeHeader or DecodeRecord.                       *)
(***************************************************************************)
StreamLines == {<<>>, <<"#", "c">>, <<"s", ",", "i">>, <<"i", ",", "s">>,
                <<"a", ",", "1">>, <<"a">>,
                <<"a", ",", "1", ",", "1">>, <<"\"", "a", ",", "b", "\"", ",", "2">>}

RECURSIVE Bytes(_)
\* the input bytes: the lines, each ended by a line feed
Bytes(lines) ==
    IF Len(lines) = 0 THEN <<>> ELSE Head(lines) \o <<"\n">> \o Bytes(Tail(lines))

\* the slices Decode is handed a pointer to
DecSlices == {GoValue("sliceP", <<>>), GoValue("sliceP", << <<<<"b">>, 5>> >>)}

\* the records DecodeRecord is handed a pointer to
DecTargets == {GoValue("P", Zero("P")), GoValue("P", <<<<"b">>, 5>>)}

DecHeader == \E h \in BOOLEAN : Header(h)
DecSkipUnknown == \E t \in BOOLEAN : SkipUnknown(t)
DecReadLine == Idle /\ Len(d.s) > 0 /\ ReadLineCall
DecDecodeHeader == ret.op = "ReadLine" /\ DecodeHeaderCall(ret.line)
DecDecodeRecord ==
    ret.op = "ReadLine" /\ \E val \in DecTargets : DecodeRecordCall(val, ret.line)
\* Decode without a header line appends the type's names to the header at
\* every call: calls are made while the header has fewer than MaxHeader names
DecDecode ==
    Idle /\ Len(d.headerKeys) < MaxHeader /\ \E v \in DecSlices : DecodeCall(v)

InitDec ==
    /\ \E lines \in SeqsUpTo(StreamLines, MaxLines) : d = NewDecoder(Bytes(lines))
    /\ e = NewEncoder
    /\ tinfoMap = <<>>
    /\ ret = NoCall
    /\ routines = NoRoutines

NextDec ==
    \/ DecHeader
    \/ DecSkipUnknown
    \/ DecReadLine
    \/ DecDecodeHeader
    \/ DecDecodeRecord
    \/ DecDecode
    \/ Return

SpecDec == InitDec /\ [][NextDec]_vars

(***************************************************************************)
(* Properties of Decode and DecodeRecord, checked under SpecDec.            *)
(***************************************************************************)
\* a line that is neither empty nor starts with the comment character
IsData(line) == Len(line) > 0 /\ line[1] # Comment

\* the lines the Decode call took from the input
Consumed == SubSeq(ret.pre.s, 1, Len(ret.pre.s) - Len(d.s))

\* the consumed lines that stand for records: the data lines, without the
\* first of them when the call took it as the header
RecordLines ==
    LET data == SelectSeq(Consumed, IsData)
    IN  IF ret.pre.readHeader /\ Len(ret.pre.headerKeys) = 0 /\ Len(data) > 0
        THEN Tail(data) ELSE data

\* the record a line decodes to under the header the Decode call left
RecordOf(line) == unmarshal(d, tinfoMap, GoValue("P", Zero("P")), line)

\* C5: Decode appends exactly one record, in input order, for each line that
\* is neither empty nor starts with the comment character, except that the
\* first such line is taken as the header when a header is expected and the
\* decoder holds none; blank and comment lines produce no record and no
\* error.  Decode stops at the first line that fails: the lines are those it
\* took from the input, which is all of them when it returns no error.
C5_DecodeOneRecordPerLine ==
    ret.op = "Decode"
    => LET recs == RecordLines
           good == IF ret.err.kind = "nil" THEN recs
                   ELSE SubSeq(recs, 1, Len(recs) - 1)
           n == Len(ret.v0.V)
       IN  /\ ret.err.kind = "nil" => d.s = <<>>
           /\ Len(ret.v.V) = n + Len(good)
           /\ \A k \in 1..n : ret.v.V[k] = ret.v0.V[k]
           /\ \A k \in 1..Len(good) :
                /\ RecordOf(good[k]).err.kind = "nil"
                /\ ret.v.V[n + k] = RecordOf(good[k]).val.V
           /\ ret.err.kind # "nil"
                  => /\ Len(recs) > 0
                     /\ Consumed[Len(Consumed)] = recs[Len(recs)]
                     /\ RecordOf(recs[Len(recs)]).err.kind # "nil"

\* C5 happens: Decode read a comment line, took the next line as the header
\* and appended one record for the line after it
C5_Witness ==
    /\ ret.op = "Decode" /\ ret.err.kind = "nil"
    /\ ret.pre.readHeader /\ ret.pre.headerKeys = <<>>
    /\ ret.pre.s = <<<<"#", "c">>, <<"s", ",", "i">>, <<"a", ",", "1">>>>
    /\ d.headerKeys = <<<<"s">>, <<"i">>>>
    /\ ret.v0.V = <<>>
    /\ ret.v.V = << <<<<"a">>, 1>> >>

\* has the line another number of tokens than the header has names
Mismatch(keys, line) == Len(tokenize(line, Separator)) # Len(keys)

\* C6: a data line whose number of tokens after the quote-merge pass is
\* smaller or larger than the header length fails with a DecodeError whose
\* field position is 0; no field of the target record is modified and, inside
\* Decode, no record is appended for that line.
C6_FieldCountMismatch ==
    /\ (DecodedRecord /\ Mismatch(ret.pre.headerKeys, ret.line))
       => /\ ret.err.kind = "DecodeError" /\ ret.err.fieldNo = 0
          /\ ret.val = ret.val0
    /\ ret.op = "Decode"
       => \A k \in 1..Len(RecordLines) :
            Mismatch(d.headerKeys, RecordLines[k])
            => /\ k = Len(RecordLines)
               /\ ret.err.kind = "DecodeError" /\ ret.err.fieldNo = 0
               /\ Len(ret.v.V) = Len(ret.v0.V) + k - 1

\* C6 happens: Decode read a header and a record and stopped at a line of
\* one token
C6_Witness ==
    /\ ret.op = "Decode"
    /\ ret.pre.s = <<<<"s", ",", "i">>, <<"a", ",", "1">>, <<"a">>>>
    /\ ret.pre.readHeader /\ ret.pre.headerKeys = <<>>
    /\ ret.err.kind = "DecodeError" /\ ret.err.fieldNo = 0
    /\ ret.v0.V = <<>>
    /\ Len(ret.v.V) = 1

\* C19: when Decode fails on a line (field count mismatch, unknown field
\* with skipping disabled, or a value that does not convert) it returns the
\* error at once, at that line; the slice holds the elements it held before
\* followed by the records of the earlier data lines, in order, and no
\* record of the failing line.
C19_DecodeFailure ==
    (ret.op = "Decode" /\ ret.err.kind # "nil")
    => LET recs == RecordLines
           n == Len(ret.v0.V)
       IN  /\ Len(recs) > 0
           /\ Consumed[Len(Consumed)] = recs[Len(recs)]
           /\ d.s = SubSeq(ret.pre.s, Len(Consumed) + 1, Len(ret.pre.s))
           /\ d.lineNo = ret.pre.lineNo + Len(Consumed)
           /\ ret.err = RecordOf(recs[Len(recs)]).err
           /\ ret.err.kind = "DecodeError" /\ ret.err.lineNo = d.lineNo
           /\ Len(ret.v.V) = n + Len(recs) - 1
           /\ \A k \in 1..n : ret.v.V[k] = ret.v0.V[k]
           /\ \A k \in 1..(Len(recs) - 1) :
                /\ RecordOf(recs[k]).err.kind = "nil"
                /\ ret.v.V[n + k] = RecordOf(recs[k]).val.V

\* C19 happens: with the header taken from the type, Decode appended one
\* record and failed on the next line, whose second token is no integer; the slice holds the element it held
\* before and the one record, and the line after the failing one is unread
C19_Witness ==
    /\ ret.op = "Decode"
    /\ ret.pre.s = <<<<"a", ",", "1">>, <<"s", ",", "i">>, <<"a", ",", "1">>>>
    /\ ~ret.pre.readHeader /\ ret.pre.headerKeys = <<>>
    /\ d.headerKeys = <<<<"s">>, <<"i">>>>
    /\ ret.err.kind = "DecodeError" /\ ret.err.lineNo = 2
    /\ ret.err.fieldNo = 2
    /\ ret.v0.V = << <<<<"b">>, 5>> >>
    /\ ret.v.V = << <<<<"b">>, 5>>, <<<<"a">>, 1>> >>
    /\ d.s = <<<<"a", ",", "1">>>>

\* C19 happens for a field count mismatch
C19_WitnessMismatch ==
    /\ ret.op = "Decode" /\ ret.err.kind = "DecodeError" /\ ret.err.fieldNo = 0
    /\ ret.pre.s = <<<<"s", ",", "i">>, <<"a", ",", "1">>, <<"a">>>>
    /\ ret.pre.headerKeys = <<>>
    /\ ret.v0.V = <<>>
    /\ ret.v.V = << <<<<"a">>, 1>> >>

\* C19 happens for an unknown field with skipping disabled: the header line
\* names no field of the record type
C19_WitnessUnknown ==
    /\ ret.op = "Decode" /\ ret.err.kind = "DecodeError" /\ ret.err.fieldNo = 1
    /\ ~d.skipUnknown
    /\ ret.pre.s = <<<<"a", ",", "1">>, <<"a", ",", "1">>>>
    /\ ret.pre.headerKeys = <<>> /\ ret.pre.readHeader
    /\ ret.err.reason = "field not found"
    /\ ret.v.V = ret.v0.V

\* a token that is no integer, for the column i of a record of type P
BadColumn(keys, toks, k) ==
    keys[k] = <<"i">> /\ toks[k] # <<>> /\ ~ParseInt(toks[k]).ok

\* the call failed with a value that does not convert
ConversionFailed ==
    /\ ret.op \in {"Decode", "DecodeRecord"}
    /\ ret.err.kind = "DecodeError" /\ ret.err.fieldNo > 0
    /\ ret.err.reason # "field not found"

\* the line the failed call was decoding
FailedLine == IF ret.op = "Decode" THEN Consumed[Len(Consumed)] ELSE ret.line

\* the DecodeError of a conversion failure names the first column of the
\* line whose token does not convert, counted from 1, and the line number
\* the Decoder has reached
FailurePosition ==
    ConversionFailed
    => LET toks == tokenize(FailedLine, Separator)
           k == ret.err.fieldNo
       IN  /\ Len(toks) = Len(d.headerKeys)
           /\ k \in 1..Len(toks)
           /\ BadColumn(d.headerKeys, toks, k)
           /\ \A j \in 1..(k - 1) : ~BadColumn(d.headerKeys, toks, j)
           /\ ret.err.hint = d.headerKeys[k]
           /\ ret.err.lineNo = d.lineNo

\* C25: a value-conversion failure while decoding a line is returned as a
\* DecodeError whose field position is the index, from 1, of the failing
\* column in the header and whose line number is the index, from 1, of that
\* physical line in the input: the Decoder starts at line 0, every call
\* advances its line number by the number of lines it took from the input,
\* blank, comment and header lines included, and the error carries the
\* number reached at the failing line.
C25_FailurePosition ==
    /\ d.lineNo = 0
    /\ [][d'.lineNo - d.lineNo = Len(d.s) - Len(d'.s)]_vars
    /\ []FailurePosition

\* C25 happens: after a comment line and the header line i,s, Decode failed
\* on the third line at its first column
C25_Witness ==
    /\ ret.op = "Decode" /\ ret.err.kind = "DecodeError"
    /\ ret.pre.s = <<<<"#", "c">>, <<"i", ",", "s">>, <<"a", ",", "1">>>>
    /\ ret.pre.lineNo = 0
    /\ ret.err.lineNo = 3 /\ ret.err.fieldNo = 1
    /\ ret.err.hint = <<"i">>

\* C25 happens line by line: ReadLine passed over an empty line, and
\* DecodeRecord failed on the line it returned at its second column
C25_WitnessReadLine ==
    /\ ret.op = "DecodeRecord" /\ ret.err.kind = "DecodeError"
    /\ ret.line = <<"s", ",", "i">>
    /\ d.headerKeys = <<<<"s">>, <<"i">>>>
    /\ d.s = <<>>
    /\ ret.err.lineNo = 3 /\ ret.err.fieldNo = 2

\* C17: once the Decoder holds a non-empty header, no later Decode,
\* DecodeHeader, DecodeRecord or ReadLine call changes the header's names,
\* order or length.
C17_HeaderImmutable ==
    [][d.headerKeys # <<>> => d'.headerKeys = d.headerKeys]_vars

\* the case C17 fails in: Decode without a header line, called on a Decoder
\* that holds the header s,i, left the header s,i,s,i
C17_Witness ==
    /\ ret.op = "Decode" /\ ~ret.pre.readHeader
    /\ ret.pre.headerKeys = <<<<"s">>, <<"i">>>>
    /\ d.headerKeys = <<<<"s">>, <<"i">>, <<"s">>, <<"i">>>>

\* C17 fails too when a second header is decoded: DecodeHeader replaced the
\* header the Decoder held
C17_WitnessReplaced ==
    /\ ret.op = "DecodeHeader"
    /\ ret.pre.headerKeys # <<>>
    /\ d.headerKeys # ret.pre.headerKeys

(***************************************************************************)
(* SpecRead: one Decoder over an input of up to MaxLines lines from         *)
(* StreamLines, after which the scanner stops in one of the ways of         *)
(* ScanStops; the input is read with ReadLine, call after call, or with     *)
(* Decode.                                                                  *)
(***************************************************************************)
ReadReadLine == Idle /\ ReadLineCall
ReadDecode == Idle /\ Len(d.s) > 0 /\ \E v \in DecSlices : DecodeCall(v)

InitRead ==
    /\ \E lines \in SeqsUpTo(StreamLines, MaxLines), stop \in ScanStops :
           d = [NewDecoder(Bytes(lines)) EXCEPT !.serr = stop]
    /\ e = NewEncoder
    /\ tinfoMap = <<>>
    /\ ret = NoCall
    /\ routines = NoRoutines

NextRead ==
    \/ ReadReadLine
    \/ ReadDecode
    \/ Return

SpecRead == InitRead /\ [][NextRead]_vars

\* the position in lines of the first line that is neither empty nor a
\* comment, or 0
FirstData(lines) ==
    IF \E k \in 1..Len(lines) : IsData(lines[k])
    THEN CHOOSE k \in 1..Len(lines) :
             IsData(lines[k]) /\ \A j \in 1..(k - 1) : ~IsData(lines[j])
    ELSE 0

\* what ReadLine returns, but for the cause of its error: the next line that
\* is neither empty nor a comment, with a nil error, or the empty string
\* once no such line is left, and then again at every later call
ReadLineReturns ==
    ret.op = "ReadLine"
    => LET k == FirstData(ret.pre.s)
       IN  IF k > 0
           THEN /\ ret.err.kind = "nil"
                /\ ret.line = ret.pre.s[k]
                /\ d.s = SubSeq(ret.pre.s, k + 1, Len(ret.pre.s))
                /\ d.lineNo = ret.pre.lineNo + k
           ELSE /\ ret.line = <<>>
                /\ d.s = <<>>
                /\ ReadLine(d).line = <<>> /\ ReadLine(d).err = ret.err

\* C14 as it is stated: ReadLine returns, with a nil error, the next line
\* that is neither empty nor starts with the comment character, or the empty
\* string once the input is exhausted; it returns a non-nil error only when
\* the underlying reader fails, and after the empty string at the end of the
\* input every later call returns the empty string again.
C14_ReadLineAny ==
    /\ ReadLineReturns
    /\ (ret.op = "ReadLine" /\ ret.err.kind # "nil") => d.serr = "reader failed"

\* C14, amended: the same, but ReadLine returns a non-nil error when the
\* scanner stopped at a failure of the underlying reader or at a line longer
\* than the scanner's buffer, once the lines before it are read, and only
\* then.
C14_ReadLine ==
    /\ ReadLineReturns
    /\ ret.op = "ReadLine"
       => (ret.err.kind # "nil" <=> (FirstData(ret.pre.s) = 0 /\ d.serr # ""))

\* C14 happens: ReadLine passed over a comment and an empty line and
\* returned the line after them
C14_Witness ==
    /\ ret.op = "ReadLine" /\ ret.err.kind = "nil"
    /\ ret.pre.s = <<<<"#", "c">>, <<>>, <<"a", ",", "1">>>>
    /\ ret.line = <<"a", ",", "1">>
    /\ d.s = <<>> /\ d.lineNo = 3

(***************************************************************************)
(* SpecConc: MaxRoutines goroutines call getTypeInfo for types of           *)
(* ConcTypes, again and again.  A step of a goroutine is one access to the *)
(* cache under tinfoLock (the lookup, the publication) or one round of the *)
(* loop over the fields, which works on the goroutine's own descriptor.    *)
(* A descriptor is [fields, by]: by is the goroutine that allocated it and *)
(* tells the objects apart.                                                *)
(***************************************************************************)
ConcTypes == {"P", "E", "Dup", "string"}

\* typeinfo.go:67: a call of getTypeInfo(typ) that has not looked up yet
Frame(typ) ==
    [typ |-> typ, pc |-> "lookup", i |-> 0, fields |-> <<>>, res |-> NoResult]

\* the innermost call in progress of goroutine p
Top(p) == routines[p].stack[Len(routines[p].stack)]

\* a goroutine with its innermost frame replaced
WithTop(r, fr) == [r EXCEPT !.stack[Len(r.stack)] = fr]

\* the return of the innermost call of r with res: to the goroutine's
\* caller, or into the round of the loop that called (typeinfo.go:92)
Returned(r, res) ==
    IF Len(r.stack) = 1 THEN [stack |-> <<>>, got |-> [res EXCEPT !.typ = r.stack[1].typ]]
    ELSE [r EXCEPT !.stack = [k \in 1..(Len(r.stack) - 1) |->
                                 IF k = Len(r.stack) - 1
                                 THEN [r.stack[k] EXCEPT !.pc = "inner", !.res = res]
                                 ELSE r.stack[k]]]

Failed(msg) == [err |-> msg, typ |-> "", tinfo |-> [fields |-> <<>>, by |-> 0]]
Obtained(tinfo) == [err |-> "", typ |-> "", tinfo |-> tinfo]

\* a loop that is over at any field
loopDone_early(fr) == TRUE

\* typeinfo.go:79: the loop over the fields is over
loopDone(fr) == fr.i >= NumField(fr.typ)

\* a goroutine calls getTypeInfo(typ)
GoCall(p, typ) ==
    /\ routines[p].stack = <<>> /\ routines[p].got = NoResult
    /\ routines' = [routines EXCEPT ![p].stack = <<Frame(typ)>>]
    /\ UNCHANGED <<d, e, tinfoMap, ret>>

\* typeinfo.go:68-77: the lookup under the read lock, and the check of the
\* kind
GoLookup(p) ==
    /\ routines[p].stack # <<>> /\ Top(p).pc = "lookup"
    /\ routines' =
          [routines EXCEPT ![p] =
              IF Top(p).typ \in DOMAIN tinfoMap
              THEN Returned(@, Obtained(tinfoMap[Top(p).typ]))
              ELSE IF Kind(Top(p).typ) # "Struct"
              THEN Returned(@, Failed("is not a struct"))
              ELSE WithTop(@, [Top(p) EXCEPT !.pc = "loop"])]
    /\ UNCHANGED <<d, e, tinfoMap, ret>>

\* typeinfo.go:105-114: r is addFieldInfo's outcome for the field of the
\* round
fieldAdded(rt, fr, r) ==
    IF r.err # "" THEN Returned(rt, Failed(r.err))
    ELSE WithTop(rt, [fr EXCEPT !.fields = r.fields, !.i = @ + 1, !.pc = "loop",
                                !.res = NoResult])

\* typeinfo.go:79-114: one round of the loop, up to the call for an
\* embedded struct or to the end of the round
GoField(p) ==
    /\ routines[p].stack # <<>> /\ Top(p).pc = "loop" /\ ~loopDone(Top(p))
    /\ LET fr == Top(p)
           f == Fields(fr.typ)[fr.i + 1]
       IN  routines' =
             [routines EXCEPT ![p] =
                 IF skipField(f) THEN WithTop(@, [fr EXCEPT !.i = @ + 1])
                 ELSE IF embedded(f) # ""
                 THEN [@ EXCEPT !.stack = Append(@, Frame(embedded(f)))]
                 ELSE fieldAdded(@, fr, addFieldInfo(fr.fields, structFieldInfo(f, fr.i)))]
    /\ UNCHANGED <<d, e, tinfoMap, ret>>

\* typeinfo.go:92-102: the call for the embedded struct returned: its
\* error is returned, or its fields are spliced in
GoInner(p) ==
    /\ routines[p].stack # <<>> /\ Top(p).pc = "inner"
    /\ routines' =
          [routines EXCEPT ![p] =
              IF Top(p).res.err # "" THEN Returned(@, Failed(Top(p).res.err))
              ELSE fieldAdded(@, Top(p),
                              addInner(Top(p).fields, Top(p).res.tinfo.fields,
                                       Top(p).i, 1))]
    /\ UNCHANGED <<d, e, tinfoMap, ret>>

\* typeinfo.go:117: tinfoMap[typ] = tinfo
stored(cache, typ, tinfo) == (typ :> tinfo) @@ cache

\* typeinfo.go:116-119: the publication under the write lock, and the
\* return of the descriptor
GoPublish(p) ==
    /\ routines[p].stack # <<>> /\ Top(p).pc = "loop" /\ loopDone(Top(p))
    /\ tinfoMap' = stored(tinfoMap, Top(p).typ, [fields |-> Top(p).fields, by |-> p])
    /\ routines' = [routines EXCEPT
                       ![p] = Returned(@, Obtained([fields |-> Top(p).fields, by |-> p]))]
    /\ UNCHANGED <<d, e, ret>>

\* the caller lets go of what its call returned
GoRelease(p) ==
    /\ routines[p].got # NoResult
    /\ routines' = [routines EXCEPT ![p].got = NoResult]
    /\ UNCHANGED <<d, e, tinfoMap, ret>>

ConcCall == \E p \in Routines, typ \in ConcTypes : GoCall(p, typ)
ConcLookup == \E p \in Routines : GoLookup(p)
ConcField == \E p \in Routines : GoField(p)
ConcInner == \E p \in Routines : GoInner(p)
ConcPublish == \E p \in Routines : GoPublish(p)
ConcRelease == \E p \in Routines : GoRelease(p)

InitConc ==
    /\ d = NewDecoder(<<>>)
    /\ e = NewEncoder
    /\ tinfoMap = <<>>
    /\ ret = NoCall
    /\ routines = NoRoutines

NextConc ==
    \/ ConcCall
    \/ ConcLookup
    \/ ConcField
    \/ ConcInner
    \/ ConcPublish
    \/ ConcRelease

SpecConc == InitConc /\ [][NextConc]_vars

\* the complete field sequence of each struct type: what a call that runs
\* alone on an empty cache builds
CompleteOf ==
    [t \in {u \in DOMAIN GoTypes : Kind(u) = "Struct"} |->
        getTypeInfo(<<>>, t).tinfo.fields]
CompleteFields(t) == CompleteOf[t]

\* the descriptors the goroutines hold: those their calls returned and
\* those the calls for embedded structs returned into a loop
Held ==
    {[typ |-> routines[p].got.typ, tinfo |-> routines[p].got.tinfo] :
        p \in {q \in Routines : routines[q].got.err = ""}}
    \cup
    UNION {{[typ |-> embedded(Fields(routines[p].stack[k].typ)[routines[p].stack[k].i + 1]),
             tinfo |-> routines[p].stack[k].res.tinfo] :
               k \in {j \in 1..Len(routines[p].stack) :
                         routines[p].stack[j].pc = "inner"
                         /\ routines[p].stack[j].res.err = ""}} : p \in Routines}

\* C20: under any interleaving of concurrent getTypeInfo calls, for the same
\* type or for different types, every descriptor a caller obtained and
\* every descriptor the cache holds has the complete field sequence of its
\* type, and the descriptors obtained for one type have the same field
\* sequence.
C20_NoPartialDescriptor ==
    /\ \A t \in DOMAIN tinfoMap : tinfoMap[t].fields = CompleteFields(t)
    /\ \A h \in Held : h.tinfo.fields = CompleteFields(h.typ)
    /\ \A g, h \in Held : g.typ = h.typ => g.tinfo.fields = h.tinfo.fields
    /\ \A h \in Held : h.typ \in DOMAIN tinfoMap
                           /\ tinfoMap[h.typ].fields = h.tinfo.fields

\* C20 happens: two goroutines built the descriptor of E side by side, each
\* its own, and each obtained the three fields of E spliced together
C20_Witness ==
    /\ \A p \in {1, 2} :
          /\ routines[p].got.err = "" /\ routines[p].got.typ = "E"
          /\ routines[p].got.tinfo.by = p
          /\ [k \in 1..4 |-> routines[p].got.tinfo.fields[k].name]
                = <<<<"s">>, <<"x">>, <<"Y">>, <<"i">>>>
    /\ "E" \in DOMAIN tinfoMap

\* C21: once a descriptor is published in the cache for a
\* type, the entry of that type is never replaced by another descriptor
\* object, also when several goroutines build the type's descriptor side by
\* side.
C21_FirstWriterWins ==
    [][\A t \in DOMAIN tinfoMap :
          t \in DOMAIN tinfoMap' /\ tinfoMap'[t] = tinfoMap[t]]_vars

\* what holds in place of it: once a descriptor is published for a type the
\* cache holds a descriptor of that type from then on, and always one of the
\* same field sequence
EntryStable ==
    [][\A t \in DOMAIN tinfoMap :
          t \in DOMAIN tinfoMap' /\ tinfoMap'[t].fields = tinfoMap[t].fields]_vars

\* the case C21 fails in: goroutine 1 published its descriptor of P and holds it, and
\* goroutine 2, which had built its own, published that in its place
C21_Witness ==
    /\ routines[1].got.err = "" /\ routines[1].got.typ = "P"
    /\ routines[1].got.tinfo.by = 1
    /\ routines[2].got.err = "" /\ routines[2].got.typ = "P"
    /\ tinfoMap["P"].by = 2
    /\ tinfoMap["P"].fields = routines[1].got.tinfo.fields

(***************************************************************************)
(* The calls of the Encoder and of the package's Marshal and Unmarshal.    *)
(***************************************************************************)
\* part_000:57-60
EncoderHeader(h) ==
    /\ Idle /\ e.writeHeader # h
    /\ e' = [e EXCEPT !.writeHeader = h]
    /\ UNCHANGED <<d, tinfoMap, ret, routines>>

\* part_000:71-74
EncoderTrim(t) ==
    /\ Idle /\ e.trim # t
    /\ e' = [e EXCEPT !.trim = t]
    /\ UNCHANGED <<d, tinfoMap, ret, routines>>

\* part_000:139-147
EncodeHeaderCall(fields, val) ==
    LET done(r) ==
            /\ e' = r.e
            /\ tinfoMap' = r.cache
            /\ ret' = [op |-> "EncodeHeader", pre |-> e, fields |-> fields,
                       val |-> val, err |-> r.err]
    IN  done(EncodeHeader(e, tinfoMap, fields, val)) /\ UNCHANGED <<d, routines>>

\* part_000:150-160: val is the record handed in, by pointer or by value;
\* out is the caller's record after the call
EncodeRecordCall(val, byPtr) ==
    LET done(r) ==
            /\ e' = r.e
            /\ tinfoMap' = r.cache
            /\ ret' = [op |-> "EncodeRecord", pre |-> e, val |-> val, byPtr |-> byPtr,
                       out |-> r.val, err |-> r.err]
    IN  done(EncodeRecord(e, tinfoMap, val, byPtr)) /\ UNCHANGED <<d, routines>>

\* part_000:108-130
EncodeCall(v) ==
    LET done(r) ==
            /\ e' = r.e
            /\ tinfoMap' = r.cache
            /\ ret' = [op |-> "Encode", pre |-> e, v |-> v, err |-> r.err]
    IN  done(Encode(e, tinfoMap, v)) /\ UNCHANGED <<d, routines>>

\* part_000:96-102
MarshalCall(v) ==
    LET done(r) ==
            /\ tinfoMap' = r.cache
            /\ ret' = [op |-> "Marshal", v |-> v, data |-> r.data, err |-> r.err]
    IN  done(Marshal(tinfoMap, v)) /\ UNCHANGED <<d, e, routines>>

\* unmarshal.go:177-179: data decoded into an empty slice of in's type
UnmarshalCall(data, in) ==
    LET done(r) ==
            /\ tinfoMap' = r.cache
            /\ ret' = [op |-> "Unmarshal", in |-> in, data |-> data, out |-> r.v,
                       err |-> r.err]
    IN  done(Unmarshal(data, tinfoMap, GoValue(in.T, <<>>))) /\ UNCHANGED <<d, e, routines>>

(***************************************************************************)
(* SpecEnc: one Encoder, configured and given headers, records and slices   *)
(* until it has written MaxLines lines.                                     *)
(***************************************************************************)
\* the number of lines in the sink
Written(w) == Cardinality({k \in 1..Len(w) : w[k] = "\n"})

\* the record types a header is derived from
HeaderTypes == {"P", "B", "E", "EP", "H", "U", "Dup", "N", "PP", "T2"}

\* the records of type P that are encoded
EncRecords == {<<<<"a">>, 1>>, <<<<" ", "a", " ">>, -7>>}

\* a pointer to x
PtrTo(x) == [nil |-> FALSE, elem |-> x]

\* the records of type PP that are encoded, next to the one whose pointers
\* are both nil
EncPtrRecords == {<<PtrTo(<<"a">>), Zero("PtrInt")>>, <<Zero("PtrString"), PtrTo(1)>>}

\* the slices EncodeRecord is handed as one record
EncSequences == {GoValue("strings", <<<<"a">>, <<"b">>>>), GoValue("ints", <<1, -7>>),
                 GoValue("ptrStrings", <<PtrTo(<<"a">>), Zero("PtrString")>>)}

\* the values EncodeHeader and EncodeRecord are handed
EncSamples == {GoValue(t, Zero(t)) : t \in HeaderTypes}
                  \cup {GoValue("P", r) : r \in EncRecords}
                  \cup {GoValue("PP", r) : r \in EncPtrRecords}
                  \cup {GoValue("T2", <<<<"a", " ">>, <<"b", " ">>>>)}
                  \cup EncSequences

\* the header names EncodeHeader is handed
EncFields == {<<>>, <<<<"i">>, <<"s">>>>, <<<<" ", "s">>>>}

\* the slices Encode is handed
EncSlices == {GoValue("sliceP", rs) : rs \in SeqsUpTo(EncRecords, MaxRecords)}
                 \cup {GoValue("slicePP", <<r>>) : r \in EncPtrRecords \cup {Zero("PP")}}

Writing == Idle /\ Written(e.w) < MaxLines

\* one behaviour is about one record type: the type of the first value
\* whose descriptor was built
SameType(t) == DOMAIN tinfoMap = {} \/ t \in DOMAIN tinfoMap

EncHeader == \E h \in BOOLEAN : EncoderHeader(h)
EncTrim == \E t \in BOOLEAN : EncoderTrim(t)
EncEncodeHeader ==
    Writing /\ \E fields \in EncFields, val \in EncSamples :
                   SameType(val.T) /\ EncodeHeaderCall(fields, val)
EncEncodeRecord ==
    Writing /\ \E val \in EncSamples, byPtr \in BOOLEAN :
                   SameType(val.T) /\ EncodeRecordCall(val, byPtr)
EncEncode ==
    Writing /\ \E v \in EncSlices : SameType(Elem(v.T)) /\ EncodeCall(v)

InitEnc ==
    /\ d = NewDecoder(<<>>)
    /\ e = NewEncoder
    /\ tinfoMap = <<>>
    /\ ret = NoCall
    /\ routines = NoRoutines

NextEnc ==
    \/ EncHeader
    \/ EncTrim
    \/ EncEncodeHeader
    \/ EncEncodeRecord
    \/ EncEncode
    \/ Return

SpecEnc == InitEnc /\ [][NextEnc]_vars

(***************************************************************************)
(* Properties of the Encoder, checked under SpecEnc.  While ret holds a     *)
(* call, e is the Encoder the call left.                                    *)
(***************************************************************************)
\* C2: Encode called with an empty slice returns without error and writes
\* nothing to the sink, no header line and no record line, also when header
\* writing is enabled.
C2_EncodeEmptySlice ==
    (ret.op = "Encode" /\ Len(ret.v.V) = 0)
    => /\ ret.err.kind = "nil"
       /\ e.w = ret.pre.w

\* the external name of a field: its tag up to the first comma or, when that
\* is empty, its Go name
ExternalName(f) ==
    LET tag == Split(f.Tag, ",")[1]
    IN  IF tag # <<>> THEN tag ELSE f.Name

RECURSIVE DeclaredNames(_, _)
\* the external names of t's fields from the k-th on, in declaration order:
\* a field tagged "-" is left out, the fields of an embedded struct (directly
\* or behind a pointer) stand in the place of the embedding field, any other
\* unexported field is left out
DeclaredNames(t, k) ==
    IF k > NumField(t) THEN <<>>
    ELSE LET f == Fields(t)[k]
             st == IF Kind(f.Type) = "Ptr" THEN Elem(f.Type) ELSE f.Type
         IN  (IF f.Tag = <<"-">> THEN <<>>
              ELSE IF f.Anonymous /\ Kind(st) = "Struct" THEN DeclaredNames(st, 1)
              ELSE IF f.PkgPath # <<>> THEN <<>>
              ELSE <<ExternalName(f)>>)
             \o DeclaredNames(t, k + 1)

\* C10: the header derived from a record type lists the external names in
\* field declaration order, the fields of an embedded struct (directly or
\* behind a pointer) in the place of the embedding field in their own order,
\* without the fields tagged "-" and without the unexported fields.
C10_HeaderDerivationOrder ==
    (ret.op = "EncodeHeader" /\ Len(ret.fields) = 0 /\ Len(ret.pre.headerKeys) = 0
        /\ ret.err.kind = "nil")
    => e.headerKeys = DeclaredNames(ret.val.T, 1)

\* C22: the header the Encoder derives from a record type when it is given
\* no names is the list of the external names of the type's fields without
\* the catch-all field, in declaration order: the list the Decoder derives
\* from that type when no header line is expected.
C22_SameDerivedHeader ==
    (ret.op = "EncodeHeader" /\ Len(ret.fields) = 0 /\ Len(ret.pre.headerKeys) = 0
        /\ ret.err.kind = "nil")
    => e.headerKeys = TypeHeader(ret.val.T)

\* the case C22 fails in: the header was derived from type B, which has a
\* catch-all field; the Encoder's header ends with the name of that field,
\* the Decoder's does not hold it
C22_Witness ==
    /\ ret.op = "EncodeHeader" /\ ret.fields = <<>> /\ ret.val.T = "B"
    /\ ret.pre.headerKeys = <<>> /\ ret.err.kind = "nil"
    /\ e.headerKeys = <<<<"s">>, <<"b">>, <<"i">>, <<"f">>, <<"A", "n", "y">>>>
    /\ TypeHeader("B") = <<<<"s">>, <<"b">>, <<"i">>, <<"f">>>>

\* the line output writes for tokens
Line(tokens) == Join(tokens, Separator) \o <<"\n">>

\* an Encoder that has no header and has written nothing
Fresh(enc) == enc.w = <<>> /\ enc.headerKeys = <<>>

\* the token of a record r of type P for the header name
ColumnOfP(name, r, trim) ==
    IF name = <<"s">> THEN Cooked(r[1], trim)
    ELSE IF name = <<"i">> THEN FormatInt(r[2])
    ELSE <<>>

\* is w the text before followed by exactly one line
OneLineAfter(before, w) ==
    /\ Len(w) > Len(before)
    /\ SubSeq(w, 1, Len(before)) = before
    /\ \A k \in (Len(before) + 1)..Len(w) : (w[k] = "\n") <=> (k = Len(w))

\* the header line a call writes: the one of a fresh Encoder with header
\* writing enabled
HeaderPart(pre, enc) ==
    IF Fresh(pre) /\ enc.writeHeader THEN Line(enc.headerKeys) ELSE <<>>

\* what EncodeHeader and EncodeRecord write, call by call: EncodeHeader on a
\* fresh Encoder computes the header and writes its line when header writing
\* is enabled; EncodeRecord writes that header line first when it is the
\* first call, and then one line for the record, which for a record of type
\* P holds the tokens of the header's columns whether or not the header
\* line was written
EncodeSequence ==
    /\ (ret.op = "EncodeHeader" /\ ret.err.kind = "nil" /\ Fresh(ret.pre))
       => /\ e.w = HeaderPart(ret.pre, e)
          /\ (ret.fields = <<>> /\ ret.val.T = "P") => e.headerKeys = <<<<"s">>, <<"i">>>>
    /\ (ret.op = "EncodeRecord" /\ ret.err.kind = "nil")
       => /\ OneLineAfter(ret.pre.w \o HeaderPart(ret.pre, e), e.w)
          /\ ret.pre.headerKeys # <<>> => e.headerKeys = ret.pre.headerKeys
          /\ ret.val.T = "P"
             => e.w = ret.pre.w \o HeaderPart(ret.pre, e)
                      \o Line([k \in 1..Len(e.headerKeys) |->
                                   ColumnOfP(e.headerKeys[k], ret.val.V, e.trim)])

C11_WitnessNoHeader ==
    /\ ret.op = "EncodeRecord" /\ ret.err.kind = "nil"
    /\ ~e.writeHeader
    /\ e.headerKeys = <<<<"s">>, <<"i">>>>
    /\ e.w = Line(<<<<"a">>, <<"1">>>>)

\* no two of the field descriptors have the same external name
UniqueNames(fields) ==
    \A j, k \in 1..Len(fields) : fields[j].name = fields[k].name => j = k

\* two fields of t, those of its embedded structs included, resolve to the
\* same external name
NameClash(t) ==
    LET names == DeclaredNames(t, 1)
    IN  \E j, k \in 1..Len(names) : j # k /\ names[j] = names[k]

\* the struct types of the model, and those of them with a clash of names
StructTypes == {t \in DOMAIN GoTypes : Kind(t) = "Struct"}
Clashing == {t \in StructTypes : NameClash(t)}

\* C16: in every descriptor that getTypeInfo returns or caches no two field
\* descriptors have the same external name, and a type in which two fields
\* resolve to the same external name yields an error and no descriptor of
\* that type is cached; of the cache of every reachable state and of
\* getTypeInfo called there for any struct type.
C16_UniqueNames ==
    /\ \A t \in DOMAIN tinfoMap : UniqueNames(tinfoMap[t].fields) /\ t \notin Clashing
    /\ \A t \in StructTypes :
          LET r == getTypeInfo(tinfoMap, t)
          IN  /\ r.err = "" => UniqueNames(r.tinfo.fields)
              /\ \A u \in DOMAIN r.cache : UniqueNames(r.cache[u].fields)
              /\ t \in Clashing => (r.err # "" /\ t \notin DOMAIN r.cache)

\* C16 happens: the header of a type with two fields named x was asked for;
\* the call failed, the descriptor of the embedded struct is cached and none
\* of the type itself
C16_Witness ==
    /\ ret.op = "EncodeHeader" /\ ret.val.T = "Dup" /\ ret.fields = <<>>
    /\ ret.err.kind # "nil"
    /\ NameClash("Dup")
    /\ DOMAIN tinfoMap = {"Inner"}

\* the tokens of the record line EncodeRecord wrote for a struct
RecordTokens ==
    marshalFields([ret.pre EXCEPT !.headerKeys = e.headerKeys], tinfoMap, ret.val,
                  ret.byPtr, <<>>, 1).tokens

\* the line EncodeRecord wrote for a struct has one token for each name of
\* the header: it is the header line, when this call built and wrote the
\* header, and then the line of these tokens
HeaderManyTokens ==
    (ret.op = "EncodeRecord" /\ ret.err.kind = "nil" /\ Kind(ret.val.T) = "Struct")
    => /\ Len(RecordTokens) = Len(e.headerKeys)
       /\ e.w = ret.pre.w
                \o (IF ret.pre.headerKeys = <<>> /\ e.writeHeader
                    THEN Line(e.headerKeys) ELSE <<>>)
                \o Line(RecordTokens)

\* the Encoder holds a header: its header has names, or it derived its
\* header from the record type without a column, whose descriptor is cached
\* from then on
HoldsHeader == e.headerKeys # <<>> \/ "N" \in DOMAIN tinfoMap

C23_EncodeReadsOnly ==
    ret.op = "EncodeRecord" => ret.out = ret.val

\* the case C23 fails in: a record of type PP with nil pointers was handed
\* to EncodeRecord by pointer; the call set the first pointer and failed on
\* it
C23_Witness ==
    /\ ret.op = "EncodeRecord" /\ ret.byPtr /\ ret.err.kind = "error"
    /\ ret.val = GoValue("PP", Zero("PP"))
    /\ ret.out = GoValue("PP", <<PtrTo(<<>>), Zero("PtrInt")>>)

\* the token of a record r of type T2 for the header name: MarshalText's
\* for L, and for Q when its address can be taken, else Q's text
ColumnOfT2(name, r, trim, canAddr) ==
    IF name = <<"l">> THEN Cooked(MarshalText("Loud", r[1]), trim)
    ELSE IF name = <<"q">>
    THEN Cooked(IF canAddr THEN MarshalText("Quiet", r[2]) ELSE r[2], trim)
    ELSE <<>>

\* C24: when a field's value, or the address of an addressable field,
\* implements encoding.TextMarshaler, the token is MarshalText's result,
\* trimmed when trimming is enabled, and no other formatting replaces it;
\* a field without it is formatted by marshalSimple.
C24_TextMarshalFirst ==
    (ret.op = "EncodeRecord" /\ ret.val.T = "T2")
    => /\ ret.err.kind = "nil"
       /\ e.w = ret.pre.w \o HeaderPart(ret.pre, e)
                \o Line([k \in 1..Len(e.headerKeys) |->
                             ColumnOfT2(e.headerKeys[k], ret.val.V, e.trim, ret.byPtr)])

\* the case C24 fails in: a record of type T2 was handed to EncodeRecord by
\* pointer, with trimming enabled; the token of L is MarshalText's result
\* with its trailing blank, the token of Q is Q's text and not MarshalText's
C24_Witness ==
    /\ ret.op = "EncodeRecord" /\ ret.byPtr /\ ret.err.kind = "nil"
    /\ e.trim /\ ~e.writeHeader
    /\ ret.val = GoValue("T2", <<<<"a", " ">>, <<"b", " ">>>>)
    /\ e.headerKeys = <<<<"l">>, <<"q">>>>
    /\ e.w = Line(<<<<"!", "a", " ">>, <<"b">>>>)

\* the text of a pointer field p to a value of kind k: of what it points
\* to, or empty when it is nil
PointedText(p, k, trim) ==
    IF p.nil THEN <<>>
    ELSE IF k = "Int" THEN FormatInt(p.elem)
    ELSE Cooked(p.elem, trim)

\* the token of a record r of type PP for the header name
ColumnOfPP(name, r, trim) ==
    IF name = <<"s">> THEN PointedText(r[1], "String", trim)
    ELSE IF name = <<"i">> THEN PointedText(r[2], "Int", trim)
    ELSE <<>>

\* C15: encoding a record with a struct field that is a non-nil pointer to
\* a string or an integer returns no error and emits the formatted
\* pointed-to value for that column, and a nil pointer field emits an empty
\* token; by EncodeRecord and by Encode of a one-record slice, which is
\* what Marshal calls.
C15_PointerFields ==
    /\ (ret.op = "EncodeRecord" /\ ret.val.T = "PP")
       => /\ ret.err.kind = "nil"
          /\ e.w = ret.pre.w \o HeaderPart(ret.pre, e)
                   \o Line([k \in 1..Len(e.headerKeys) |->
                                ColumnOfPP(e.headerKeys[k], ret.val.V, e.trim)])
    /\ (ret.op = "Encode" /\ ret.v.T = "slicePP")
       => /\ ret.err.kind = "nil"
          /\ e.w = ret.pre.w \o HeaderPart(ret.pre, e)
                   \o Line([k \in 1..Len(e.headerKeys) |->
                                ColumnOfPP(e.headerKeys[k], ret.v.V[1], e.trim)])

\* the nil half of C15 happens: a record of type PP whose pointers are nil
\* was encoded into a line of empty tokens
C15_NilWitness ==
    /\ ret.op = "EncodeRecord" /\ ret.err.kind = "nil"
    /\ ret.val = GoValue("PP", Zero("PP"))
    /\ e.w = Line(<<<<"s">>, <<"i">>>>) \o Line(<<<<>>, <<>>>>)

\* the case C15 fails in: a record of type PP with a non-nil pointer was
\* handed to EncodeRecord
C15_Witness ==
    /\ ret.op = "EncodeRecord"
    /\ ret.val = GoValue("PP", <<PtrTo(<<"a">>), Zero("PtrInt")>>)

(***************************************************************************)
(* SpecRT: Marshal of a slice of up to MaxRecords records, then Unmarshal   *)
(* of the bytes it returned into an empty slice of the same type.           *)
(***************************************************************************)
RTStrings == {<<>>, <<"a">>, <<" ", "a">>, <<"a", " ", "b">>, <<"a", ",", "b">>,
              <<"\"", "a", "\"">>, <<"#", "a">>, <<"a", "\n", "b">>}

\* the records of a type whose fields are all primitive
RTRecords(t) ==
    IF t = "S" THEN {<<s>> : s \in RTStrings}
    ELSE IF t = "P" THEN {<<s, i>> : s \in RTStrings, i \in {0, -7}}
    ELSE {<<s, b, i, f>> : s \in {<<"H", "i">>, <<>>}, b \in BOOLEAN,
                           i \in {42, -7}, f \in {2345, -50}}

RTSlices == UNION {{GoValue(st, rs) : rs \in SeqsUpTo(RTRecords(Elem(st)), MaxRecords)}
                       : st \in {"sliceS", "sliceP", "sliceA"}}

RTMarshal == Idle /\ \E v \in RTSlices : MarshalCall(v)
RTUnmarshal ==
    ret.op = "Marshal" /\ ret.err.kind = "nil" /\ UnmarshalCall(ret.data, ret.v)

InitRT ==
    /\ d = NewDecoder(<<>>)
    /\ e = NewEncoder
    /\ tinfoMap = <<>>
    /\ ret = NoCall
    /\ routines = NoRoutines

NextRT ==
    \/ RTMarshal
    \/ RTUnmarshal
    \/ Return

SpecRT == InitRT /\ [][NextRT]_vars

(***************************************************************************)
(* The round trip, checked under SpecRT.                                    *)
(***************************************************************************)
\* C1 as it is stated: for any sequence of records of a struct type whose
\* fields are all primitive, Marshal returns bytes that Unmarshal decodes to
\* a sequence of the same length whose records equal the originals field for
\* field, in the same order.
C1_RoundTripAny ==
    /\ ret.op = "Marshal" => ret.err.kind = "nil"
    /\ ret.op = "Unmarshal" => ret.err.kind = "nil" /\ ret.out = ret.in

\* a string that the encoded line carries as it is: no whitespace at its
\* ends, no separator, no quote, no line break
PlainString(s) ==
    /\ TrimSpace(s) = s
    /\ \A k \in 1..Len(s) : s[k] \notin {Separator, Wrapper, "\n", "\r"}

\* a record whose encoded line the decoder reads as a record: the line is
\* not empty and does not start with the comment character (the first field
\* of the record types of SpecRT is a string)
ReadAsRecord(t, r) ==
    /\ NumField(t) > 1 \/ r[1] # <<>>
    /\ ~HasPrefix(r[1], Comment)

\* a non-empty sequence of such records with plain strings
RoundTrips(v) ==
    /\ Len(v.V) > 0
    /\ \A k \in 1..Len(v.V) :
         /\ ReadAsRecord(Elem(v.T), v.V[k])
         /\ \A j \in 1..NumField(Elem(v.T)) :
              Kind(Fields(Elem(v.T))[j].Type) = "String" => PlainString(v.V[k][j])

\* The round trip that the code does make: for a non-empty sequence of
\* records whose strings have no whitespace at their ends and hold no
\* separator, quote or line break, and whose encoded lines are not empty and
\* do not start with the comment character, Unmarshal of the bytes Marshal
\* returned yields the same records in the same order.
PlainRoundTrip ==
    /\ (ret.op = "Marshal" /\ RoundTrips(ret.v)) => ret.err.kind = "nil"
    /\ (ret.op = "Unmarshal" /\ RoundTrips(ret.in))
       => ret.err.kind = "nil" /\ ret.out = ret.in

\* two records with a negative integer went through Marshal and Unmarshal
PlainRoundTripHappens ==
    /\ ret.op = "Unmarshal"
    /\ ret.in = GoValue("sliceP", << <<<<"a">>, -7>>, <<<<"a", " ", "b">>, 0>> >>)
    /\ ret.out = ret.in
    /\ ret.err.kind = "nil"


\* the text the value converter gives the element x of a slice of type t:
\* a pointer's is its target's, a nil pointer's is empty
ElementFormat(t, x) ==
    IF Kind(t) = "Ptr"
    THEN IF x.nil THEN <<>> ELSE marshalSimple(Elem(t), x.elem).s
    ELSE marshalSimple(t, x).s

\* EncodeRecord was handed a slice that has as many elements as the header
\* has names
SliceRecord ==
    /\ ret.op = "EncodeRecord" /\ Kind(ret.val.T) = "Slice"
    /\ Len(ret.val.V) = Len(ret.pre.headerKeys)

\* C27: EncodeRecord of a slice whose length is the header's length returns
\* no error and writes one line whose i-th token is the value converter's
\* text of the i-th element.
C27_SliceRecord ==
    SliceRecord
    => /\ ret.err.kind = "nil"
       /\ e.w = ret.pre.w
                \o Line([k \in 1..Len(ret.val.V) |->
                             ElementFormat(Elem(ret.val.T), ret.val.V[k])])

\* the case C27 fails in: the slice of the strings a and b was handed to
\* EncodeRecord under the header i,s; the call panicked and wrote nothing
C27_Witness ==
    /\ SliceRecord /\ ret.err.kind = "panic"
    /\ ret.val = GoValue("strings", <<<<"a">>, <<"b">>>>)
    /\ ret.pre.headerKeys = <<<<"i">>, <<"s">>>>
    /\ e.w = ret.pre.w

\* a slice of pointers is written as C27 says
PointerSliceRecord ==
    (SliceRecord /\ Kind(Elem(ret.val.T)) = "Ptr") => C27_SliceRecord

\* a slice of pointers, the second nil, was written as the line a,
PointerSliceWritten ==
    /\ SliceRecord /\ ret.err.kind = "nil"
    /\ ret.val = GoValue("ptrStrings", <<PtrTo(<<"a">>), Zero("PtrString")>>)
    /\ e.w = ret.pre.w \o Line(<<<<"a">>, <<>>>>)

=============================================================================
